---------------------------- MODULE Spec2Model ----------------------------
(***************************************************************************)
(* A model of the census accessor layer: the four domain accessors         *)
(* (Population, Income, DwellingStructure, Ancestry), their derived        *)
(* statistics, and the part of the dashboard page that drives them.        *)
(*                                                                         *)
(* Conventions                                                             *)
(*  - A Python str is a sequence of tokens: a maximal run of characters    *)
(*    other than '_' and ' ' is one token (a TLA+ string), and each '_'    *)
(*    or ' ' is a token of its own.  Two Python strings are equal exactly  *)
(*    when their token sequences are equal, and replace/strip/slicing on   *)
(*    separators are computed on the sequence.                             *)
(*  - A Python float is an exact rational [n, d] in lowest terms with      *)
(*    d > 0.  Rounding of binary floating point is not modelled.           *)
(*  - The outcome of a call is Ok(value) or Raise(type, arg).              *)
(*  - A DataFrame is [nrows, row]: the number of rows and the first row    *)
(*    as a function from column names to values (only .empty, len() and    *)
(*    .iloc[0] are used by the code).                                      *)
(***************************************************************************)
EXTENDS Integers, Sequences, FiniteSets, TLC

VARIABLES
    cls,      \* the accessor class the caller works with
    df,       \* the dataset handed to the constructor
    obj,      \* <<>> while no accessor exists, else <<[cls, df, ...]>>
    call,     \* the last call made: [op, arg]
    result,   \* the outcome of the last call
    seen      \* history: the first call made on the accessor and its outcome

vars == <<cls, df, obj, call, result, seen>>

---------------------------------------------------------------------------
(* Bounds of the model *)

MaxRows == 3
MaxCount == 2
MaxHot == 2

---------------------------------------------------------------------------
(* Numbers: Python floats as exact rationals *)

Abs(x) == IF x < 0 THEN -x ELSE x

RECURSIVE GCD(_, _)
GCD(a, b) == IF b = 0 THEN a ELSE GCD(b, a % b)

Rat(n, d) ==
    LET s == IF d < 0 THEN -1 ELSE 1
        g == GCD(Abs(n), Abs(d))
    IN  [n |-> (s * n) \div g, d |-> (s * d) \div g]

R(k) == [n |-> k, d |-> 1]
Zero == R(0)
Half == [n |-> 1, d |-> 2]

RAdd(a, b) == Rat(a.n * b.d + b.n * a.d, a.d * b.d)
RSub(a, b) == Rat(a.n * b.d - b.n * a.d, a.d * b.d)
RMul(a, b) == Rat(a.n * b.n, a.d * b.d)
RQuot(a, b) == Rat(a.n * b.d, a.d * b.n)      \* only for b # 0
RLt(a, b) == a.n * b.d < b.n * a.d
RLe(a, b) == a.n * b.d <= b.n * a.d
RGt(a, b) == RLt(b, a)

(* int(x): truncation towards zero *)
PyInt(a) == IF a.n >= 0 THEN a.n \div a.d ELSE -((-a.n) \div a.d)

---------------------------------------------------------------------------
(* Outcomes of calls *)

Ok(v) == [ok |-> TRUE, val |-> v]
Raise(t, a) == [ok |-> FALSE, err |-> [type |-> t, arg |-> a]]

Raised(r, t) == ~r.ok /\ r.err.type = t

(* a / b: a true division by zero raises ZeroDivisionError *)
PyDiv(a, b) ==
    IF b = Zero THEN Raise("ZeroDivisionError", <<"division", " ", "by", " ", "zero">>)
    ELSE Ok(RQuot(a, b))

---------------------------------------------------------------------------
(* Strings as token sequences *)

U == "_"
SP == " "
IsSep(t) == t \in {U, SP}

(* a + b, f"{a}{b}": adjacent word tokens merge into one word *)
Cat(a, b) ==
    IF a = <<>> THEN b
    ELSE IF b = <<>> THEN a
    ELSE IF ~IsSep(a[Len(a)]) /\ ~IsSep(b[1])
         THEN SubSeq(a, 1, Len(a) - 1) \o <<a[Len(a)] \o b[1]>> \o Tail(b)
         ELSE a \o b

(* The literal w1_w2_..._wn *)
RECURSIVE Lit(_)
Lit(ws) ==
    IF Len(ws) = 0 THEN <<>>
    ELSE IF Len(ws) = 1 THEN <<ws[1]>>
    ELSE <<ws[1], U>> \o Lit(Tail(ws))

(* The literal w1_w2_..._wn_ (a column-name prefix) *)
Pre(ws) == Lit(ws) \o <<U>>

(* s.replace(old, new) for single separator characters *)
Replace(s, old, new) == [i \in 1..Len(s) |-> IF s[i] = old THEN new ELSE s[i]]

RECURSIVE LStrip(_)
LStrip(s) == IF s # <<>> /\ s[1] = SP THEN LStrip(Tail(s)) ELSE s

RECURSIVE RStrip(_)
RStrip(s) ==
    IF s # <<>> /\ s[Len(s)] = SP THEN RStrip(SubSeq(s, 1, Len(s) - 1)) ELSE s

(* s.strip(): no word token holds whitespace *)
Strip(s) == RStrip(LStrip(s))

EndsWith(s, t) == s # <<>> /\ s[Len(s)] = t

(* s[:-1] for a string that ends with a separator *)
DropLast(s) == SubSeq(s, 1, Len(s) - 1)

---------------------------------------------------------------------------
(* DataFrames *)

Frame(n, row) == [nrows |-> n, row |-> row]
Columns(d) == DOMAIN d.row

(* DataFrame.empty: any axis of length 0 *)
IsEmpty(d) == d.nrows = 0 \/ Columns(d) = {}

(* A lookup that answers 0 for an absent column *)
GetValue_Default(d, column) ==
    IF column \notin Columns(d) THEN Ok(Zero)
    ELSE IF d.nrows = 0 THEN Raise("IndexError", column)
    ELSE Ok(d.row[column])

(* float(self.df[column].iloc[0]) *)
GetValue(d, column) ==
    IF column \notin Columns(d) THEN Raise("KeyError", column)
    ELSE IF d.nrows = 0 THEN Raise("IndexError", column)
    ELSE Ok(d.row[column])

(* r; F(value of r): an exception raised by r propagates *)
Then(r, F(_)) == IF r.ok THEN F(r.val) ELSE r

(* Evaluation order only: the value v of a loop variable is evaluated at each
   iteration, as Python does, instead of once after the last one. *)
Strict(v, F(_)) == IF v = v THEN F(v) ELSE F(v)

(* A run of calls made in source order: the first one that raises ends the
   run, otherwise the values in order. *)
Collect(rs) ==
    IF \E i \in 1..Len(rs) : ~rs[i].ok
    THEN rs[CHOOSE i \in 1..Len(rs) : ~rs[i].ok /\ \A j \in 1..(i - 1) : rs[j].ok]
    ELSE Ok([i \in 1..Len(rs) |-> rs[i].val])

ReadAll(d, columns) == Collect([i \in 1..Len(columns) |-> GetValue(d, columns[i])])

---------------------------------------------------------------------------
(* Constructors *)

MsgEmpty == <<"DataFrame", SP, "is", SP, "empty">>
MsgMany == <<"DataFrame", SP, "contains", SP, "more", SP, "than", SP, "one", SP, "row">>

(* The table with no ceiling assumed for the open top band *)
income_bands_NoCeiling ==
    << [name |-> Lit(<<"650", "799">>),   low |-> 650,  high |-> 799],
       [name |-> Lit(<<"800", "999">>),   low |-> 800,  high |-> 999],
       [name |-> Lit(<<"1000", "1249">>), low |-> 1000, high |-> 1249],
       [name |-> Lit(<<"1250", "1499">>), low |-> 1250, high |-> 1499],
       [name |-> Lit(<<"1500", "1749">>), low |-> 1500, high |-> 1749],
       [name |-> Lit(<<"1750", "1999">>), low |-> 1750, high |-> 1999],
       [name |-> Lit(<<"2000", "2999">>), low |-> 2000, high |-> 2999],
       [name |-> Lit(<<"3000", "3499">>), low |-> 3000, high |-> 3499],
       [name |-> Lit(<<"3500", "more">>), low |-> 3500, high |-> 3500] >>

income_bands ==
    << [name |-> Lit(<<"650", "799">>),   low |-> 650,  high |-> 799],
       [name |-> Lit(<<"800", "999">>),   low |-> 800,  high |-> 999],
       [name |-> Lit(<<"1000", "1249">>), low |-> 1000, high |-> 1249],
       [name |-> Lit(<<"1250", "1499">>), low |-> 1250, high |-> 1499],
       [name |-> Lit(<<"1500", "1749">>), low |-> 1500, high |-> 1749],
       [name |-> Lit(<<"1750", "1999">>), low |-> 1750, high |-> 1999],
       [name |-> Lit(<<"2000", "2999">>), low |-> 2000, high |-> 2999],
       [name |-> Lit(<<"3000", "3499">>), low |-> 3000, high |-> 3499],
       [name |-> Lit(<<"3500", "more">>), low |-> 3500, high |-> 5000] >>

age_bands ==
    << Lit(<<"15", "19">>), Lit(<<"20", "24">>), Lit(<<"25", "34">>),
       Lit(<<"35", "44">>), Lit(<<"45", "54">>), Lit(<<"55", "64">>),
       Lit(<<"65", "74">>), Lit(<<"75", "84">>), <<"85ov">> >>

Population_init(d) ==
    IF IsEmpty(d) THEN Raise("ValueError", MsgEmpty)
    ELSE IF d.nrows > 1 THEN Raise("ValueError", MsgMany)
    ELSE Ok([cls |-> "Population", df |-> d])

DwellingStructure_init(d) ==
    IF IsEmpty(d) THEN Raise("ValueError", MsgEmpty)
    ELSE IF d.nrows > 1 THEN Raise("ValueError", MsgMany)
    ELSE Ok([cls |-> "DwellingStructure", df |-> d])

Income_init(d) ==
    IF IsEmpty(d) THEN Raise("ValueError", MsgEmpty)
    ELSE IF d.nrows > 1 THEN Raise("ValueError", MsgMany)
    ELSE Ok([cls |-> "Income", df |-> d,
             income_bands |-> income_bands, age_bands |-> age_bands])

Ancestry_init_NoRowCount(d) ==
    IF IsEmpty(d) THEN Raise("ValueError", MsgEmpty)
    ELSE Ok([cls |-> "Ancestry", df |-> d])

Ancestry_init(d) ==
    IF IsEmpty(d) THEN Raise("ValueError", MsgEmpty)
    ELSE IF d.nrows > 1 THEN Raise("ValueError", MsgMany)
    ELSE Ok([cls |-> "Ancestry", df |-> d])

Classes == {"Population", "Income", "DwellingStructure", "Ancestry"}

New(c, d) ==
    CASE c = "Population" -> Population_init(d)
      [] c = "Income" -> Income_init(d)
      [] c = "DwellingStructure" -> DwellingStructure_init(d)
      [] c = "Ancestry" -> Ancestry_init(d)

NoCall == [op |-> "none", arg |-> <<>>]
NoResult == [ok |-> TRUE, val |-> <<>>]

(* The history of a behaviour in which no history is kept, and of one in
   which the first call and what was called after it are remembered: later is
   0 while nothing was called after the first call, 1 when every later call
   returned, 2 when a later call raised *)
Untracked == [tracked |-> FALSE, call |-> NoCall, result |-> NoResult, later |-> 0]
Tracked == [tracked |-> TRUE, call |-> NoCall, result |-> NoResult, later |-> 0]

Remember(op, arg, r) ==
    IF ~seen.tracked THEN seen
    ELSE IF seen.call.op = "none"
    THEN [seen EXCEPT !.call = [op |-> op, arg |-> arg], !.result = r]
    ELSE [seen EXCEPT !.later = IF ~r.ok THEN 2 ELSE IF @ = 0 THEN 1 ELSE @]

(* The caller constructs the accessor of class cls over df. *)
Construct ==
    /\ obj = <<>>
    /\ call = NoCall
    /\ call' = [op |-> "__init__", arg |-> <<>>]
    /\ obj' = IF New(cls, df).ok THEN <<New(cls, df).val>> ELSE <<>>
    /\ result' = IF New(cls, df).ok THEN Ok(<<>>) ELSE New(cls, df)
    /\ UNCHANGED <<cls, df, seen>>

(* The caller takes the outcome of the call it made (the value returned or the
   exception raised) and is ready to make its next call. *)
Return ==
    /\ call # NoCall
    /\ call' = NoCall
    /\ result' = NoResult
    /\ UNCHANGED <<cls, df, obj, seen>>

---------------------------------------------------------------------------
(* Construction of the four accessors over arbitrary datasets *)

SmallColumns == {Lit(<<"Tot", "P", "P">>), Lit(<<"Total", "Total">>)}
SmallRows == UNION {[S -> {R(k) : k \in 0..MaxCount}] : S \in SUBSET SmallColumns}

InitConstruct ==
    /\ cls \in Classes
    /\ df \in {Frame(n, row) : n \in 0..MaxRows, row \in SmallRows}
    /\ obj = <<>>
    /\ call = NoCall
    /\ result = NoResult
    /\ seen = Untracked

NextConstruct ==
    \/ Construct
    \/ Return

SpecConstruct == InitConstruct /\ [][NextConstruct]_vars

(* C1 as stated: zero rows raise, two or more rows raise an error of another
   kind (exception class) than zero rows do, exactly one row succeeds and
   stores the record, and no accessor exists after an error. *)
C1_AsStated ==
    call.op = "__init__" =>
        /\ df.nrows = 0 => ~result.ok /\ obj = <<>>
        /\ df.nrows >= 2 =>
               /\ ~result.ok /\ obj = <<>>
               /\ result.err.type # New(cls, Frame(0, df.row)).err.type
        /\ df.nrows = 1 => result.ok /\ obj # <<>> /\ obj[1].df = df

(* C1 amended: a dataset with zero rows or zero columns raises
   ValueError("DataFrame is empty"); one with two or more rows and at least
   one column raises ValueError("DataFrame contains more than one row"), the
   same exception class with another message; exactly one row and at least one
   column succeeds and stores the record; after an error no accessor exists. *)
C1_Construction ==
    /\ MsgEmpty # MsgMany
    /\ obj # <<>> => obj[1].df = df /\ obj[1].cls = cls /\ df.nrows = 1
    /\ call.op = "__init__" =>
        /\ (df.nrows = 0 \/ Columns(df) = {}) =>
               result = Raise("ValueError", MsgEmpty) /\ obj = <<>>
        /\ (df.nrows >= 2 /\ Columns(df) # {}) =>
               result = Raise("ValueError", MsgMany) /\ obj = <<>>
        /\ (df.nrows = 1 /\ Columns(df) # {}) => result.ok /\ obj # <<>>

C1_Witness ==
    /\ call.op = "__init__" /\ cls = "Ancestry"
    /\ df.nrows = 2 /\ Columns(df) # {}
    /\ Raised(result, "ValueError") /\ result.err.arg = MsgMany

---------------------------------------------------------------------------
(* Python values of an optional str parameter *)

PyNone == [isNone |-> TRUE, s |-> <<>>]
PyStr(s) == [isNone |-> FALSE, s |-> s]

(* bool(x): None and the empty string are falsy *)
Truthy(x) == ~x.isNone /\ x.s # <<>>

(* x in list_of_str *)
InList(x, l) == ~x.isNone /\ \E i \in 1..Len(l) : l[i] = x.s

---------------------------------------------------------------------------
(* Dictionaries: insertion-ordered sequences of [k, v] *)

HasKey(dict, k) == \E i \in 1..Len(dict) : dict[i].k = k
Get(dict, k) == dict[CHOOSE i \in 1..Len(dict) : dict[i].k = k].v
Keys(dict) == [i \in 1..Len(dict) |-> dict[i].k]
Values(dict) == [i \in 1..Len(dict) |-> dict[i].v]

(* dict[k] = v: an existing key keeps its position *)
Put(dict, k, v) ==
    IF HasKey(dict, k)
    THEN [i \in 1..Len(dict) |-> IF dict[i].k = k THEN [k |-> k, v |-> v] ELSE dict[i]]
    ELSE Append(dict, [k |-> k, v |-> v])

(* {keys[i]: vals[i]} for distinct keys *)
Zip(keys, vals) == [i \in 1..Len(keys) |-> [k |-> keys[i], v |-> vals[i]]]

---------------------------------------------------------------------------
(* Sums and concatenations *)

(* sum of xs[lo..hi]; exact addition is associative, so the halves are
   summed apart *)
RECURSIVE SumRange(_, _, _)
SumRange(xs, lo, hi) ==
    IF lo > hi THEN Zero
    ELSE IF lo = hi THEN xs[lo]
    ELSE RAdd(SumRange(xs, lo, (lo + hi) \div 2), SumRange(xs, (lo + hi) \div 2 + 1, hi))

(* sum(xs), from the int 0 *)
Sum(xs) == Strict(xs, LAMBDA ys : SumRange(ys, 1, Len(ys)))

(* ss[lo] + ... + ss[hi] for lists; concatenation is associative *)
RECURSIVE ConcatRange(_, _, _)
ConcatRange(ss, lo, hi) ==
    IF lo > hi THEN <<>>
    ELSE IF lo = hi THEN ss[lo]
    ELSE ConcatRange(ss, lo, (lo + hi) \div 2) \o ConcatRange(ss, (lo + hi) \div 2 + 1, hi)

Concat(ss) == Strict(ss, LAMBDA ts : ConcatRange(ts, 1, Len(ts)))

---------------------------------------------------------------------------
(* Income *)

NotStated == Lit(<<"not", "stated">>)
Age85 == <<"85ov">>
MsgAgeBand == <<"Invalid", SP, "age", SP, "band">>

BandNames(self) == [i \in 1..Len(self.income_bands) |-> self.income_bands[i].name]

(* The column holding the count of income_band for age_band *)
IncomeColumn(income_band, age_band) ==
    IF age_band = Age85
    THEN Cat(Cat(<<"P", U>>, income_band), <<U, "85ov">>)
    ELSE Cat(Cat(Cat(Cat(<<"P", U>>, income_band), <<U>>), age_band), <<U, "yrs">>)

(* The 'not stated' column named by the regular pattern for every age band *)
NsColumn_Regular(age_band) ==
    Cat(Cat(Lit(<<"P", "PI", "NS", "ns">>) \o <<U>>, age_band), <<U, "yrs">>)

NsColumn(age_band) ==
    IF age_band = Age85
    THEN Lit(<<"P", "PI", "NS", "ns", "85", "yrs", "ovr">>)
    ELSE Cat(Cat(Lit(<<"P", "PI", "NS", "ns">>) \o <<U>>, age_band), <<U, "yrs">>)

IncomeColumns(self, age) ==
    [i \in 1..Len(self.income_bands) |-> IncomeColumn(self.income_bands[i].name, age)]
        \o <<NsColumn(age)>>

get_income_by_age(self, age_band) ==
    IF ~InList(age_band, self.age_bands) THEN Raise("ValueError", MsgAgeBand)
    ELSE Then(ReadAll(self.df, IncomeColumns(self, age_band.s)),
              LAMBDA vals : Ok(Zip(BandNames(self) \o <<NotStated>>, vals)))

get_income_distribution(self) ==
    Then(Collect([i \in 1..Len(self.age_bands) |->
                     get_income_by_age(self, PyStr(self.age_bands[i]))]),
         LAMBDA dists : Ok(Zip(self.age_bands, dists)))

(* The lower end of the band in place of its midpoint *)
Midpoint_Low(band) == R(band.low)

(* (band_range[0] + band_range[1]) / 2 *)
Midpoint(band) == Rat(band.low + band.high, 2)

BandOf(self, name) ==
    self.income_bands[CHOOSE i \in 1..Len(self.income_bands) :
                          self.income_bands[i].name = name]

IsStated(it) == it.k # NotStated

(* The (income_band, count) pairs the loops work on, in loop order:
   for age, income_data in distribution.items():
       for income_band, count in income_data.items():
           if income_band != "not_stated" *)
StatedItems(distribution) ==
    Concat([a \in 1..Len(distribution) |-> SelectSeq(distribution[a].v, IsStated)])

(* total_weighted_sum after the loops *)
WeightedSum(self, items) ==
    Sum([i \in 1..Len(items) |-> RMul(Midpoint(BandOf(self, items[i].k)), items[i].v)])

(* total_stated_count after the loops *)
StatedCount(items) == Sum([i \in 1..Len(items) |-> items[i].v])

(* The distribution of all age bands, whatever age band is asked for *)
SelectDistribution_AllAges(self, age_band) == get_income_distribution(self)

(* The distribution calculate_average_income works on *)
SelectDistribution(self, age_band) ==
    IF Truthy(age_band)
    THEN Then(get_income_by_age(self, age_band),
              LAMBDA dist : Ok(<<[k |-> age_band.s, v |-> dist]>>))
    ELSE get_income_distribution(self)

(* The weighted sum returned as it is, not divided by the count *)
AverageOf_Total(total_weighted_sum, total_stated_count) ==
    IF total_stated_count = Zero THEN Ok(<<Zero, Zero>>)
    ELSE Ok(<<total_weighted_sum, total_stated_count>>)

(* The end of calculate_average_income *)
AverageOf(total_weighted_sum, total_stated_count) ==
    IF total_stated_count = Zero THEN Ok(<<Zero, Zero>>)
    ELSE Then(PyDiv(total_weighted_sum, total_stated_count),
              LAMBDA average_income : Ok(<<average_income, total_stated_count>>))

calculate_average_income(self, age_band) ==
    Then(SelectDistribution(self, age_band), LAMBDA distribution :
    Strict(StatedItems(distribution), LAMBDA items :
    Strict(StatedCount(items), LAMBDA total_stated_count :
           AverageOf(WeightedSum(self, items), total_stated_count))))

(* One copy of x for every positive n *)
Repeat_Once(x, n) == IF n <= 0 THEN <<>> ELSE <<x>>

(* [x] * n: empty for n <= 0 *)
Repeat(x, n) == IF n <= 0 THEN <<>> ELSE [i \in 1..n |-> x]

(* all_incomes after the loops: [midpoint] * int(count) for each stated item *)
AllIncomes(self, items) ==
    Concat([i \in 1..Len(items) |->
               Repeat(Midpoint(BandOf(self, items[i].k)), PyInt(items[i].v))])

(* distribution = self.get_income_by_age(age_band), for each age band in turn *)
ReadAges(self) ==
    Then(Collect([i \in 1..Len(self.age_bands) |->
                     get_income_by_age(self, PyStr(self.age_bands[i]))]),
         LAMBDA dists : Ok(Zip(self.age_bands, dists)))

(* The place of xs[i] in ascending order *)
PlaceAsc(xs, i) ==
    1 + Cardinality({j \in 1..Len(xs) : RLt(xs[j], xs[i]) \/ (j < i /\ xs[j] = xs[i])})

(* The list as it was built, not sorted *)
SortAsc_Unsorted(xs) == xs

(* The order statistics of xs *)
SortAsc(xs) ==
    Strict([i \in 1..Len(xs) |-> PlaceAsc(xs, i)], LAMBDA place :
           [p \in 1..Len(xs) |-> xs[CHOOSE i \in 1..Len(xs) : place[i] = p]])

(* The order statistic below position h, with no interpolation *)
Interpolate_Lower(x, h) == x[(h.n \div h.d) + 1]

(* Linear interpolation between the order statistics of sorted x at
   position h = (n - 1) * q / 100 *)
Interpolate(x, h) ==
    IF (h.n \div h.d) + 2 > Len(x) THEN x[Len(x)]
    ELSE RAdd(x[(h.n \div h.d) + 1],
              RMul(RSub(h, R(h.n \div h.d)),
                   RSub(x[(h.n \div h.d) + 2], x[(h.n \div h.d) + 1])))

(* np.percentile(a, q), the default linear method, for non-empty a *)
NpPercentile(a, q) ==
    Strict(SortAsc(a), LAMBDA x : Interpolate(x, Rat((Len(a) - 1) * q, 100)))

PercentileKeys == << <<"p25">>, <<"median">>, <<"p75">>, <<"p90">> >>

(* The percentiles taken without the test for an empty list *)
Percentiles_Unguarded(all_incomes) ==
    IF all_incomes = <<>> THEN Raise("IndexError", <<>>)
    ELSE Ok(Zip(PercentileKeys,
                <<NpPercentile(all_incomes, 25), NpPercentile(all_incomes, 50),
                  NpPercentile(all_incomes, 75), NpPercentile(all_incomes, 90)>>))

Percentiles(all_incomes) ==
    IF all_incomes = <<>> THEN Ok(Zip(PercentileKeys, <<Zero, Zero, Zero, Zero>>))
    ELSE Ok(Zip(PercentileKeys,
                <<NpPercentile(all_incomes, 25), NpPercentile(all_incomes, 50),
                  NpPercentile(all_incomes, 75), NpPercentile(all_incomes, 90)>>))

get_income_percentiles(self) ==
    Then(ReadAges(self), LAMBDA distribution :
    Strict(AllIncomes(self, StatedItems(distribution)), LAMBDA all_incomes :
           Percentiles(all_incomes)))

(* The not_stated count of the first age band alone *)
SumNotStated_First(self) ==
    Then(ReadAges(self), LAMBDA distribution : Ok(Get(distribution[1].v, NotStated)))

(* The loop of get_income_summary that adds up the not_stated counts *)
SumNotStated(self) ==
    Then(ReadAges(self), LAMBDA distribution :
         Ok(Sum([i \in 1..Len(distribution) |-> Get(distribution[i].v, NotStated)])))

get_income_summary(self) ==
    Then(calculate_average_income(self, PyNone), LAMBDA avg :
    Then(SumNotStated(self), LAMBDA ns :
    Then(get_income_percentiles(self), LAMBDA pc :
         Ok([average_income |-> avg[1], total_stated |-> avg[2],
             total_not_stated |-> ns, percentiles |-> pc]))))

get_age_band_summary(self, age_band) ==
    Then(calculate_average_income(self, age_band), LAMBDA avg :
    Then(get_income_by_age(self, age_band), LAMBDA dist :
         Ok([average_income |-> avg[1], total_stated |-> avg[2],
             distribution |-> dist])))

---------------------------------------------------------------------------
(* Datasets: the rows the loader can supply *)

Counts == {R(k) : k \in (-1)..MaxCount} \cup {Half}
NonZeroCounts == Counts \ {Zero}

(* Functions from at most k elements of cells to non-zero counts *)
HotUpTo(cells, k) ==
    UNION {[S -> NonZeroCounts] : S \in {T \in SUBSET cells : Cardinality(T) <= k}}

HotAssignments(cells) == HotUpTo(cells, MaxHot)

Override(hot, base) == hot @@ base
Without(row, missing) == [c \in (DOMAIN row) \ missing |-> row[c]]

(* Census table G17 (personal income by age), short headers: cell <<b, a>> is
   income band b (10: income not stated) of age band a *)
G17Stem(b) ==
    IF b = 10 THEN Lit(<<"P", "PI", "NS", "ns">>)
    ELSE Cat(<<"P", U>>, income_bands[b].name)

G17Column(cell) ==
    LET b == cell[1]
        a == cell[2]
    IN  IF a = 9
        THEN IF b = 10 THEN G17Stem(b) \o <<U, "85", U, "yrs", U, "ovr">>
             ELSE G17Stem(b) \o <<U, "85ov">>
        ELSE G17Stem(b) \o <<U>> \o age_bands[a] \o <<U, "yrs">>

G17Cells == (1..10) \X (1..9)
G17Columns == {G17Column(cell) : cell \in G17Cells}
G17ZeroRow == [c \in G17Columns |-> Zero]

IncomeHotCells == {1, 9, 10} \X {3, 9}

G17Row(hot) == Override([c \in {G17Column(cell) : cell \in DOMAIN hot} |->
                            hot[CHOOSE cell \in DOMAIN hot : G17Column(cell) = c]],
                        G17ZeroRow)

G17ExampleRow == G17Row(<<1, 3>> :> R(10))

G17Missing ==
    { {G17Column(<<1, 3>>)}, {G17Column(<<10, 9>>)}, {G17Column(<<9, 9>>)},
      G17Columns \ {G17Column(<<1, 3>>)} }

IncomeFramesOf(hots) ==
    {Frame(1, G17Row(hot)) : hot \in hots}
    \cup {Frame(1, G17ExampleRow)}
    \cup {Frame(1, Without(G17Row(hot), m)) :
              hot \in {h \in hots : Cardinality(DOMAIN h) <= 1}, m \in G17Missing}

IncomeFrames == IncomeFramesOf(HotAssignments(IncomeHotCells))

AgeArgs ==
    {PyStr(age_bands[i]) : i \in 1..Len(age_bands)}
    \cup {PyNone, PyStr(<<>>), PyStr(<<"99">>), PyStr(Lit(<<"85", "ov">>))}

---------------------------------------------------------------------------
(* Calls on an Income accessor *)

IsA(c) == obj # <<>> /\ obj[1].cls = c /\ call = NoCall

(* A call that leaves the accessor without the columns of its record *)
Called_Consuming(op, arg, r) ==
    /\ call' = [op |-> op, arg |-> arg]
    /\ result' = r
    /\ seen' = Remember(op, arg, r)
    /\ obj' = <<[obj[1] EXCEPT !.df = Frame(1, <<>>)]>>
    /\ UNCHANGED <<cls, df>>

(* A method call: no method assigns to self or to the record *)
Called(op, arg, r) ==
    /\ call' = [op |-> op, arg |-> arg]
    /\ result' = r
    /\ seen' = Remember(op, arg, r)
    /\ UNCHANGED <<cls, df, obj>>

CallGetIncomeByAge ==
    \E a \in AgeArgs :
        IsA("Income") /\ Called("get_income_by_age", a, get_income_by_age(obj[1], a))

CallGetIncomeDistribution ==
    IsA("Income") /\ Called("get_income_distribution", <<>>, get_income_distribution(obj[1]))

CallCalculateAverageIncome ==
    \E a \in AgeArgs :
        IsA("Income")
        /\ Called("calculate_average_income", a, calculate_average_income(obj[1], a))

CallGetIncomePercentiles ==
    IsA("Income") /\ Called("get_income_percentiles", <<>>, get_income_percentiles(obj[1]))

CallGetIncomeSummary ==
    IsA("Income") /\ Called("get_income_summary", <<>>, get_income_summary(obj[1]))

CallGetAgeBandSummary ==
    \E a \in AgeArgs :
        IsA("Income") /\ Called("get_age_band_summary", a, get_age_band_summary(obj[1], a))

InitIncome ==
    /\ cls = "Income"
    /\ df \in IncomeFrames
    /\ obj = <<>>
    /\ call = NoCall
    /\ result = NoResult
    /\ seen = Untracked

NextIncome ==
    \/ Construct
    \/ Return
    \/ CallGetIncomeByAge
    \/ CallGetIncomeDistribution
    \/ CallCalculateAverageIncome
    \/ CallGetIncomePercentiles
    \/ CallGetIncomeSummary
    \/ CallGetAgeBandSummary

SpecIncome == InitIncome /\ [][NextIncome]_vars

---------------------------------------------------------------------------
(* Ancestry *)

ancestry_prefix_list ==
    << Pre(<<"Aust">>), Pre(<<"Aust", "Abor">>), Pre(<<"Chinese">>), Pre(<<"Croatian">>),
       Pre(<<"Dutch">>), Pre(<<"English">>), Pre(<<"Filipino">>), Pre(<<"French">>),
       Pre(<<"German">>), Pre(<<"Greek">>), Pre(<<"Hungarian">>), Pre(<<"Indian">>),
       Pre(<<"Irish">>), Pre(<<"Italian">>), Pre(<<"Korean">>), Pre(<<"Lebanese">>),
       Pre(<<"Maltese">>), Pre(<<"Maori">>), Pre(<<"Macedonian">>), Pre(<<"NZ">>),
       Pre(<<"Other">>), Pre(<<"Polish">>), Pre(<<"Russian">>), Pre(<<"Samoan">>),
       Pre(<<"Scottish">>), Pre(<<"Serbian">>), Pre(<<"Sth", "African">>),
       Pre(<<"Spanish">>), Pre(<<"Sri", "Lankan">>), Pre(<<"Vietnamese">>),
       Pre(<<"Welsh">>), Pre(<<"Other">>) >>

SummaryKeys ==
    << Lit(<<"both", "overseas">>), Lit(<<"father", "overseas">>),
       Lit(<<"mother", "overseas">>), Lit(<<"both", "australia">>),
       Lit(<<"not", "stated">>), <<"total">> >>

SummarySuffixes ==
    << Lit(<<"BP", "B", "OS">>), Lit(<<"FO", "B", "OS">>), Lit(<<"MO", "B", "OS">>),
       Lit(<<"BP", "B", "Aus">>), Lit(<<"BP", "NS">>), Lit(<<"Tot", "resp">>) >>

TotResp == Lit(<<"Tot", "resp">>)

(* The six columns f"{prefix}BP_B_OS" ... f"{prefix}Tot_resp" *)
SummaryColumns(prefix) == [i \in 1..6 |-> Cat(prefix, SummarySuffixes[i])]

(* A six-key summary whose total is added up from the five parts read *)
ReadSummary_SumParts(self, columns) ==
    Then(ReadAll(self.df, columns),
         LAMBDA vals : Ok(Zip(SummaryKeys, SubSeq(vals, 1, 5) \o <<Sum(SubSeq(vals, 1, 5))>>)))

(* A six-key summary read from six columns *)
ReadSummary(self, columns) ==
    Then(ReadAll(self.df, columns), LAMBDA vals : Ok(Zip(SummaryKeys, vals)))

AncestryPrefix(ancestry) ==
    IF ancestry = <<"New", SP, "Zealand">> THEN Pre(<<"NZ">>)
    ELSE IF ancestry = <<"South", SP, "African">> THEN Pre(<<"Sth", "African">>)
    ELSE Cat(ancestry, <<U>>)

get_ancestry_summary(self, ancestry) ==
    ReadSummary(self, SummaryColumns(AncestryPrefix(ancestry)))

get_total_population_summary(self) ==
    ReadSummary(self, SummaryColumns(Pre(<<"Tot", "P">>)))

AustGeneralColumns ==
    << Lit(<<"Aust", "BP", "B", "OS">>), Lit(<<"Aust", "FO", "B", "OS">>),
       Lit(<<"Aust", "MO", "B", "OS">>), Lit(<<"Aust", "Both", "parents", "born", "Aust">>),
       Lit(<<"Aust", "Birthplace", "not", "stated">>), Lit(<<"Aust", "Tot", "resp">>) >>

get_australian_summary(self) ==
    Then(ReadSummary(self, AustGeneralColumns), LAMBDA general :
    Then(ReadSummary(self, SummaryColumns(Pre(<<"Aust", "Abor">>))), LAMBDA aboriginal :
         Ok(<< [k |-> <<"general">>, v |-> general],
               [k |-> <<"aboriginal">>, v |-> aboriginal] >>)))

get_not_stated_summary(self) ==
    ReadSummary(self, SummaryColumns(Pre(<<"Ancestry", "NS">>)))

get_other_ancestry_summary(self) ==
    ReadSummary(self, SummaryColumns(Pre(<<"Other">>)))

(* prefix.replace('_', ' ').strip(), less a trailing blank *)
DisplayName(prefix) ==
    IF EndsWith(Strip(Replace(prefix, U, SP)), SP)
    THEN DropLast(Strip(Replace(prefix, U, SP)))
    ELSE Strip(Replace(prefix, U, SP))

display_names == [i \in 1..Len(ancestry_prefix_list) |-> DisplayName(ancestry_prefix_list[i])]

(* try: total = self._get_value(f"{prefix}Tot_resp"), for each prefix *)
RankTotals(self) ==
    [i \in 1..Len(ancestry_prefix_list) |->
        GetValue(self.df, Cat(ancestry_prefix_list[i], TotResp))]

(* if total > 0: ancestry_totals[display_name] = total; except: continue *)
RankEntry(totals, i) == totals[i].ok /\ RGt(totals[i].val, Zero)

(* The first and the last assignment to the display name of prefix i *)
FirstEntry(totals, i) ==
    /\ RankEntry(totals, i)
    /\ \A j \in 1..(i - 1) : ~(RankEntry(totals, j) /\ display_names[j] = display_names[i])

LastEntry(totals, i) ==
    CHOOSE j \in i..Len(totals) :
        /\ RankEntry(totals, j) /\ display_names[j] = display_names[i]
        /\ \A k \in (j + 1)..Len(totals) :
               ~(RankEntry(totals, k) /\ display_names[k] = display_names[i])

(* The k-th smallest element of a set of numbers *)
Pick(S, k) == CHOOSE i \in S : Cardinality({j \in S : j < i}) = k - 1

(* ancestry_totals when the counts assigned to one name are added up *)
TotalsOf_Merged(totals, first) ==
    [k \in 1..Cardinality(first) |->
        [k |-> display_names[Pick(first, k)],
         v |-> Sum([j \in 1..Len(totals) |->
                       IF RankEntry(totals, j) /\ display_names[j] = display_names[Pick(first, k)]
                       THEN totals[j].val ELSE Zero])]]

(* ancestry_totals after the loop: a name stands where it was first assigned
   and holds the value assigned last *)
TotalsOf(totals, first) ==
    [k \in 1..Cardinality(first) |->
        [k |-> display_names[Pick(first, k)],
         v |-> totals[LastEntry(totals, Pick(first, k))].val]]

CollectTotals(self) ==
    Strict(RankTotals(self), LAMBDA totals :
    Strict({i \in 1..Len(totals) : FirstEntry(totals, i)}, LAMBDA first :
           TotalsOf(totals, first)))

(* The place of item i when equal items are put in the reverse order *)
PlaceDesc_TiesReversed(items, i) ==
    1 + Cardinality({j \in 1..Len(items) :
                        \/ RGt(items[j].v, items[i].v)
                        \/ j > i /\ items[j].v = items[i].v})

(* The place of item i after a stable descending sort: behind every larger
   item and every equal item that came before it *)
PlaceDesc(items, i) ==
    1 + Cardinality({j \in 1..Len(items) :
                        \/ RGt(items[j].v, items[i].v)
                        \/ j < i /\ items[j].v = items[i].v})

(* The items in the table order, unsorted *)
SortDesc_TableOrder(items) == items

(* sorted(items, key=value, reverse=True): stable *)
SortDesc(items) ==
    Strict([i \in 1..Len(items) |-> PlaceDesc(items, i)], LAMBDA place :
           [p \in 1..Len(items) |-> items[CHOOSE i \in 1..Len(items) : place[i] = p]])

get_ancestry_ranking(self) ==
    Strict(CollectTotals(self), LAMBDA ancestry_totals : Ok(SortDesc(ancestry_totals)))

get_available_ancestries ==
    << <<"Chinese">>, <<"Croatian">>, <<"Dutch">>, <<"English">>, <<"Filipino">>,
       <<"French">>, <<"German">>, <<"Greek">>, <<"Hungarian">>, <<"Indian">>,
       <<"Irish">>, <<"Italian">>, <<"Korean">>, <<"Lebanese">>, <<"Macedonian">>,
       <<"Maltese">>, <<"Maori">>, <<"New", SP, "Zealand">>, <<"Polish">>, <<"Russian">>,
       <<"Samoan">>, <<"Scottish">>, <<"Serbian">>, <<"South", SP, "African">>,
       <<"Spanish">>, <<"Sri", SP, "Lankan">>, <<"Vietnamese">>, <<"Welsh">> >>

(* value / total * 100 *)
PercentOf(value, total) == Then(PyDiv(value, total), LAMBDA q : Ok(RMul(q, R(100))))

(* The percentage without the test of the total *)
calculate_percentage_Unguarded(value, total) == PercentOf(value, total)

(* The quotient, not scaled to a percentage *)
calculate_percentage_Fraction(value, total) ==
    IF total # Zero THEN PyDiv(value, total) ELSE Ok(Zero)

calculate_percentage(value, total) ==
    IF total # Zero THEN PercentOf(value, total) ELSE Ok(Zero)

(* Every item of the summary, 'total' included *)
NonTotalItems_All(items) == items

(* [(key, value) for key, value in items if key != "total"] *)
RECURSIVE NonTotalItems(_)
NonTotalItems(items) ==
    IF items = <<>> THEN <<>>
    ELSE IF Head(items).k # <<"total">> THEN <<Head(items)>> \o NonTotalItems(Tail(items))
    ELSE NonTotalItems(Tail(items))

(* {key: calculate_percentage(value, total) for key, value in items} *)
PercentItems(items, total) ==
    Then(Collect([i \in 1..Len(items) |-> calculate_percentage(items[i].v, total)]),
         LAMBDA percentages : Ok(Zip(Keys(items), percentages)))

get_ancestry_percentages(self, ancestry) ==
    Then(get_ancestry_summary(self, ancestry),
         LAMBDA summary : PercentItems(NonTotalItems(summary), Get(summary, <<"total">>)))

TopN == 10

colors ==
    << "#FF9999", "#66B2FF", "#99FF99", "#FFCC99", "#FF99CC", "#A0A0A0",
       "#FF9999", "#66B2FF", "#99FF99", "#FFCC99", "#FF99CC" >>

Min(a, b) == IF a < b THEN a ELSE b

(* The bars added to the figure: zip(values, labels, colors) *)
Bars(values, labels) ==
    [i \in 1..Min(Min(Len(values), Len(labels)), Len(colors)) |->
        [label |-> labels[i], value |-> values[i], color |-> colors[i]]]

PlotFrom(rankings, total_population) ==
    Then(Collect([i \in 1..Min(TopN, Len(rankings)) |->
                     PercentOf(rankings[i].v, total_population)]),
         LAMBDA percentages :
    Then(PercentOf(Sum(SubSeq(Values(rankings), TopN + 1, Len(rankings))), total_population),
         LAMBDA other_percentage :
            Ok(Bars(percentages \o <<other_percentage>>,
                    SubSeq(Keys(rankings), 1, Min(TopN, Len(rankings)))
                        \o << <<"All", SP, "other">> >>))))

plot_top_ancestries_horizontal(self) ==
    Then(get_ancestry_ranking(self),
         LAMBDA rankings : PlotFrom(rankings, Sum(Values(rankings))))

---------------------------------------------------------------------------
(* Census table G08 (ancestry by birthplace of parents), short headers: cell
   <<p, j>> is column j of the p-th group of G08Groups *)

G08Groups ==
    << Pre(<<"Aust">>), Pre(<<"Aust", "Abor">>), Pre(<<"Chinese">>), Pre(<<"Croatian">>),
       Pre(<<"Dutch">>), Pre(<<"English">>), Pre(<<"Filipino">>), Pre(<<"French">>),
       Pre(<<"German">>), Pre(<<"Greek">>), Pre(<<"Hungarian">>), Pre(<<"Indian">>),
       Pre(<<"Irish">>), Pre(<<"Italian">>), Pre(<<"Korean">>), Pre(<<"Lebanese">>),
       Pre(<<"Maltese">>), Pre(<<"Maori">>), Pre(<<"Macedonian">>), Pre(<<"NZ">>),
       Pre(<<"Other">>), Pre(<<"Polish">>), Pre(<<"Russian">>), Pre(<<"Samoan">>),
       Pre(<<"Scottish">>), Pre(<<"Serbian">>), Pre(<<"Sth", "African">>),
       Pre(<<"Spanish">>), Pre(<<"Sri", "Lankan">>), Pre(<<"Vietnamese">>),
       Pre(<<"Welsh">>), Pre(<<"Ancestry", "NS">>), Pre(<<"Tot", "P">>) >>

G08Column(cell) ==
    IF cell[1] = 1 THEN AustGeneralColumns[cell[2]]
    ELSE G08Groups[cell[1]] \o
         << Lit(<<"BP", "B", "OS">>), Lit(<<"FO", "B", "OS">>), Lit(<<"MO", "B", "OS">>),
            Lit(<<"BP", "B", "Aus">>), Lit(<<"BP", "NS">>), Lit(<<"Tot", "resp">>) >>[cell[2]]

G08Cells == (1..Len(G08Groups)) \X (1..6)
G08Columns == {G08Column(cell) : cell \in G08Cells}

(* The base rows: every count 0; every count 1; the total of group p is p and
   every other count is 1 *)
G08Bases == {"zero", "one", "ramp"}

G08BaseValue(base, cell) ==
    IF base = "zero" THEN Zero
    ELSE IF base = "ramp" /\ cell[2] = 6 THEN R(cell[1])
    ELSE R(1)

G08BaseRow(base) ==
    [c \in G08Columns |->
        G08BaseValue(base, CHOOSE cell \in G08Cells : G08Column(cell) = c)]

G08BaseRows == [base \in G08Bases |-> G08BaseRow(base)]

(* Groups 3, 21 and 31 are Chinese_, Other_ and Welsh_ *)
AncestryHotCells == {<<3, 1>>, <<3, 6>>, <<21, 6>>, <<31, 6>>}

G08Row(base, hot) ==
    Override([c \in {G08Column(cell) : cell \in DOMAIN hot} |->
                 hot[CHOOSE cell \in DOMAIN hot : G08Column(cell) = c]],
             G08BaseRows[base])

G08Missing ==
    { {G08Column(<<3, 6>>)}, {G08Column(<<3, 1>>)},
      {G08Column(<<21, 6>>)}, {G08Column(<<2, 5>>)}, {G08Column(<<33, 6>>)},
      {G08Column(<<p, 6>>) : p \in 1..Len(G08Groups)} }

AncestryFramesOf(hots) ==
    {Frame(1, G08Row(base, hot)) : base \in G08Bases, hot \in hots}
    \cup {Frame(1, Without(G08Row(base, hot), m)) :
              base \in G08Bases, hot \in {h \in hots : Cardinality(DOMAIN h) <= 1},
              m \in G08Missing}

AncestryFrames == AncestryFramesOf(HotAssignments(AncestryHotCells))

AncestryArgs ==
    { <<"Chinese">>, <<"Welsh">>, <<"New", SP, "Zealand">>, <<"South", SP, "African">>,
      <<"Sri", SP, "Lankan">>, <<"Other">>, <<"Aust">>, <<"NZ">>, Lit(<<"Tot", "P">>),
      <<"Klingon">>, <<>> }

PercentageInputs == {R(k) : k \in (-MaxCount)..MaxCount} \cup {Half, R(100), Rat(-1, 2)}

---------------------------------------------------------------------------
(* Calls on an Ancestry accessor *)

CallGetAncestrySummary ==
    \E a \in AncestryArgs :
        IsA("Ancestry") /\ Called("get_ancestry_summary", a, get_ancestry_summary(obj[1], a))

CallGetAncestryPercentages ==
    \E a \in AncestryArgs :
        IsA("Ancestry")
        /\ Called("get_ancestry_percentages", a, get_ancestry_percentages(obj[1], a))

CallGetTotalPopulationSummary ==
    IsA("Ancestry")
    /\ Called("get_total_population_summary", <<>>, get_total_population_summary(obj[1]))

CallGetAustralianSummary ==
    IsA("Ancestry") /\ Called("get_australian_summary", <<>>, get_australian_summary(obj[1]))

CallGetNotStatedSummary ==
    IsA("Ancestry") /\ Called("get_not_stated_summary", <<>>, get_not_stated_summary(obj[1]))

CallGetOtherAncestrySummary ==
    IsA("Ancestry")
    /\ Called("get_other_ancestry_summary", <<>>, get_other_ancestry_summary(obj[1]))

CallGetAncestryRanking ==
    IsA("Ancestry") /\ Called("get_ancestry_ranking", <<>>, get_ancestry_ranking(obj[1]))

CallPlotTopAncestries ==
    IsA("Ancestry")
    /\ Called("plot_top_ancestries_horizontal", <<>>, plot_top_ancestries_horizontal(obj[1]))

CallCalculatePercentage ==
    \E v \in PercentageInputs, t \in PercentageInputs :
        IsA("Ancestry")
        /\ Called("calculate_percentage", <<v, t>>, calculate_percentage(v, t))

InitAncestry ==
    /\ cls = "Ancestry"
    /\ df \in AncestryFrames
    /\ obj = <<>>
    /\ call = NoCall
    /\ result = NoResult
    /\ seen = Untracked

NextAncestry ==
    \/ Construct
    \/ Return
    \/ CallGetAncestrySummary
    \/ CallGetAncestryPercentages
    \/ CallGetTotalPopulationSummary
    \/ CallGetAustralianSummary
    \/ CallGetNotStatedSummary
    \/ CallGetOtherAncestrySummary
    \/ CallGetAncestryRanking
    \/ CallPlotTopAncestries

SpecAncestry == InitAncestry /\ [][NextAncestry]_vars

(* calculate_percentage on its own: it reads nothing of the record *)
InitPercentage ==
    /\ cls = "Ancestry"
    /\ df \in {Frame(1, G08BaseRows[base]) : base \in G08Bases}
    /\ obj = <<>>
    /\ call = NoCall
    /\ result = NoResult
    /\ seen = Untracked

NextPercentage ==
    \/ Construct
    \/ Return
    \/ CallCalculatePercentage

SpecPercentage == InitPercentage /\ [][NextPercentage]_vars

---------------------------------------------------------------------------
(* Population *)

GenderKeys == << <<"total">>, <<"male">>, <<"female">> >>

(* {'total': stem_P, 'male': stem_M, 'female': stem_F} *)
GenderColumns(stem) == << stem \o <<U, "P">>, stem \o <<U, "M">>, stem \o <<U, "F">> >>

ByGender(self, stem) ==
    Then(ReadAll(self.df, GenderColumns(stem)), LAMBDA vals : Ok(Zip(GenderKeys, vals)))

(* {keys[i]: {'total': ..., 'male': ..., 'female': ...}}, read in order *)
GenderGroups(self, keys, stems) ==
    Then(Collect([i \in 1..Len(stems) |-> ByGender(self, stems[i])]),
         LAMBDA groups : Ok(Zip(keys, groups)))

(* The population by gender with the male and female columns exchanged *)
get_total_population_Swapped(self) ==
    Then(ReadAll(self.df, << Lit(<<"Tot", "P", "P">>), Lit(<<"Tot", "P", "F">>),
                             Lit(<<"Tot", "P", "M">>) >>),
         LAMBDA vals : Ok(Zip(GenderKeys, vals)))

get_total_population(self) == ByGender(self, Lit(<<"Tot", "P">>))

AgeDistributionKeys ==
    << <<"0-4">>, <<"5-14">>, <<"15-19">>, <<"20-24">>, <<"25-34">>, <<"35-44">>,
       <<"45-54">>, <<"55-64">>, <<"65-74">>, <<"75-84">>, <<"85+">> >>

AgeDistributionStems ==
    << Lit(<<"Age", "0", "4", "yr">>), Lit(<<"Age", "5", "14", "yr">>),
       Lit(<<"Age", "15", "19", "yr">>), Lit(<<"Age", "20", "24", "yr">>),
       Lit(<<"Age", "25", "34", "yr">>), Lit(<<"Age", "35", "44", "yr">>),
       Lit(<<"Age", "45", "54", "yr">>), Lit(<<"Age", "55", "64", "yr">>),
       Lit(<<"Age", "65", "74", "yr">>), Lit(<<"Age", "75", "84", "yr">>),
       Lit(<<"Age", "85ov">>) >>

get_age_distribution(self) == GenderGroups(self, AgeDistributionKeys, AgeDistributionStems)

IndigenousStatisticsKeys ==
    << <<"total">>, <<"aboriginal">>, Lit(<<"torres", "strait", "islander">>), <<"both">> >>

IndigenousStatisticsStems ==
    << Lit(<<"Indigenous", "P", "Tot">>), Lit(<<"Indigenous", "psns", "Aboriginal">>),
       Lit(<<"Indig", "psns", "Torres", "Strait", "Is">>),
       Lit(<<"Indig", "Bth", "Abor", "Torres", "St", "Is">>) >>

get_indigenous_statistics(self) ==
    GenderGroups(self, IndigenousStatisticsKeys, IndigenousStatisticsStems)

EducationAttendanceKeys ==
    << <<"0-4">>, <<"5-14">>, <<"15-19">>, <<"20-24">>, <<"25+">> >>

EducationAttendanceStems ==
    << Lit(<<"Age", "psns", "att", "educ", "inst", "0", "4">>),
       Lit(<<"Age", "psns", "att", "educ", "inst", "5", "14">>),
       Lit(<<"Age", "psns", "att", "edu", "inst", "15", "19">>),
       Lit(<<"Age", "psns", "att", "edu", "inst", "20", "24">>),
       Lit(<<"Age", "psns", "att", "edu", "inst", "25", "ov">>) >>

get_education_attendance(self) ==
    GenderGroups(self, EducationAttendanceKeys, EducationAttendanceStems)

EducationCompletionKeys ==
    << Lit(<<"year", "12">>), Lit(<<"year", "11">>), Lit(<<"year", "10">>),
       Lit(<<"year", "9">>), Lit(<<"year", "8", "or", "below">>),
       Lit(<<"did", "not", "attend">>) >>

EducationCompletionStems ==
    << Lit(<<"High", "yr", "schl", "comp", "Yr", "12", "eq">>),
       Lit(<<"High", "yr", "schl", "comp", "Yr", "11", "eq">>),
       Lit(<<"High", "yr", "schl", "comp", "Yr", "10", "eq">>),
       Lit(<<"High", "yr", "schl", "comp", "Yr", "9", "eq">>),
       Lit(<<"High", "yr", "schl", "comp", "Yr", "8", "belw">>),
       Lit(<<"High", "yr", "schl", "comp", "D", "n", "g", "sch">>) >>

get_education_completion(self) ==
    GenderGroups(self, EducationCompletionKeys, EducationCompletionStems)

get_australian_citizen_status(self) == ByGender(self, Lit(<<"Australian", "citizen">>))

---------------------------------------------------------------------------
(* DwellingStructure *)

DwellingKeys ==
    << Lit(<<"separate", "house">>), Lit(<<"semi", "detached">>), Lit(<<"flat", "apartment">>),
       Lit(<<"other", "dwelling">>), Lit(<<"not", "stated">>), <<"total">> >>

ByDwelling(self, columns) ==
    Then(ReadAll(self.df, columns), LAMBDA vals : Ok(Zip(DwellingKeys, vals)))

(* {keys[i]: {'separate_house': ..., ..., 'total': ...}}, read in order *)
TenureGroups(self, keys, columns) ==
    Then(Collect([i \in 1..Len(columns) |-> ByDwelling(self, columns[i])]),
         LAMBDA groups : Ok(Zip(keys, groups)))

OwnershipSummaryKeys ==
    << Lit(<<"owned", "outright">>), Lit(<<"owned", "with", "mortgage">>) >>

OwnershipSummaryColumns ==
    << << Lit(<<"O", "OR", "DS", "Sep", "house">>),
          Lit(<<"O", "OR", "DS", "SemiD", "ro", "or", "tce", "h", "th">>),
          Lit(<<"O", "OR", "DS", "Flat", "apart">>),
          Lit(<<"O", "OR", "DS", "Oth", "dwell">>),
          Lit(<<"O", "OR", "DS", "not", "stated">>), Lit(<<"O", "OR", "Total">>) >>,
       << Lit(<<"O", "MTG", "DS", "Sep", "house">>),
          Lit(<<"O", "MTG", "DS", "SemiD", "ro", "or", "tce", "h", "th">>),
          Lit(<<"O", "MTG", "DS", "Flat", "apart">>),
          Lit(<<"O", "MTG", "DS", "Oth", "dwell">>),
          Lit(<<"O", "MTG", "DS", "not", "stated">>), Lit(<<"O", "MTG", "Total">>) >> >>

get_ownership_summary(self) ==
    TenureGroups(self, OwnershipSummaryKeys, OwnershipSummaryColumns)

RentalByTypeKeys ==
    << Lit(<<"real", "estate", "agent">>), Lit(<<"state", "housing">>),
       Lit(<<"community", "housing">>), Lit(<<"private", "landlord">>),
       Lit(<<"other", "landlord">>) >>

RentalByTypeColumns ==
    << << Lit(<<"R", "RE", "Agt", "DS", "Sep", "house">>),
          Lit(<<"R", "RE", "Ag", "DS", "SemD", "ro", "or", "tc", "h", "th">>),
          Lit(<<"R", "RE", "Agt", "DS", "Flat", "apart">>),
          Lit(<<"R", "RE", "Agt", "DS", "Oth", "dwell">>),
          Lit(<<"R", "RE", "Agt", "DS", "not", "stated">>),
          Lit(<<"R", "RE", "Agt", "Total">>) >>,
       << Lit(<<"R", "ST", "h", "auth", "DS", "Sep", "house">>),
          Lit(<<"R", "ST", "h", "au", "DS", "SD", "ro", "or", "tc", "h", "th">>),
          Lit(<<"R", "ST", "h", "auth", "DS", "Flat", "apart">>),
          Lit(<<"R", "ST", "h", "auth", "DS", "Oth", "dwell">>),
          Lit(<<"R", "ST", "h", "auth", "DS", "not", "stated">>),
          Lit(<<"R", "ST", "h", "auth", "Total">>) >>,
       << Lit(<<"R", "Com", "Hp", "DS", "Sp", "ho">>),
          Lit(<<"R", "Com", "Hp", "DS", "SD", "ro", "t", "h", "t">>),
          Lit(<<"R", "Com", "Hp", "DS", "Flt", "apt">>),
          Lit(<<"R", "Com", "Hp", "DS", "Ot", "dwel">>),
          Lit(<<"R", "Com", "Hp", "DS", "NS">>), Lit(<<"R", "Com", "Hp", "Total">>) >>,
       << Lit(<<"R", "Psn", "not", "in", "s", "hh", "DS", "Sep", "hous">>),
          Lit(<<"R", "P", "not", "in", "s", "h", "DS", "SD", "ro", "t", "h", "t">>),
          Lit(<<"R", "P", "not", "in", "s", "hh", "DS", "Flat", "apart">>),
          Lit(<<"R", "Psn", "not", "in", "s", "hh", "DS", "Oth", "dwel">>),
          Lit(<<"R", "Psn", "not", "in", "s", "hh", "DS", "NS">>),
          Lit(<<"R", "Psn", "not", "in", "s", "hh", "Total">>) >>,
       << Lit(<<"R", "Ot", "landld", "typ", "DS", "Sep", "house">>),
          Lit(<<"R", "O", "LLd", "typ", "DS", "SD", "ro", "tc", "h", "th">>),
          Lit(<<"R", "Ot", "LLd", "typ", "DS", "Flat", "apart">>),
          Lit(<<"R", "Ot", "landld", "typ", "DS", "Oth", "dwell">>),
          Lit(<<"R", "Ot", "landld", "typ", "DS", "not", "stated">>),
          Lit(<<"R", "Ot", "landld", "typ", "Total">>) >> >>

get_rental_by_type(self) == TenureGroups(self, RentalByTypeKeys, RentalByTypeColumns)

RentalTotalsColumns ==
    << Lit(<<"R", "Tot", "DS", "Sep", "house">>),
       Lit(<<"R", "Tot", "DS", "SemiD", "ro", "or", "tce", "h", "th">>),
       Lit(<<"R", "Tot", "DS", "Flat", "apart">>), Lit(<<"R", "Tot", "DS", "Oth", "dwell">>),
       Lit(<<"R", "Tot", "DS", "not", "stated">>), Lit(<<"R", "Tot", "Total">>) >>

get_rental_totals(self) == ByDwelling(self, RentalTotalsColumns)

DwellingTotalsColumns ==
    << Lit(<<"Total", "DS", "Sep", "house">>),
       Lit(<<"Total", "DS", "SemiD", "ro", "or", "tce", "h", "th">>),
       Lit(<<"Total", "DS", "Flat", "apart">>), Lit(<<"Total", "DS", "Oth", "dwell">>),
       Lit(<<"Total", "DS", "not", "stated">>), Lit(<<"Total", "Total">>) >>

get_dwelling_totals(self) == ByDwelling(self, DwellingTotalsColumns)

OtherTenureTypesKeys ==
    << Lit(<<"other", "tenure">>), Lit(<<"tenure", "not", "stated">>) >>

OtherTenureTypesColumns ==
    << << Lit(<<"Oth", "ten", "type", "DS", "Sep", "house">>),
          Lit(<<"Oth", "ten", "ty", "DS", "SD", "ro", "tce", "h", "th">>),
          Lit(<<"Oth", "ten", "type", "DS", "Flat", "apart">>),
          Lit(<<"Oth", "ten", "type", "DS", "Oth", "dwell">>),
          Lit(<<"Oth", "ten", "type", "DS", "not", "stated">>),
          Lit(<<"Oth", "ten", "type", "Total">>) >>,
       << Lit(<<"Ten", "type", "NS", "DS", "Sep", "house">>),
          Lit(<<"Ten", "ty", "NS", "DS", "SD", "ro", "tce", "h", "t">>),
          Lit(<<"Ten", "ty", "NS", "DS", "Flat", "apart">>),
          Lit(<<"Ten", "type", "NS", "DS", "Oth", "dwell">>),
          Lit(<<"Ten", "type", "NS", "DS", "not", "stated">>),
          Lit(<<"Ten", "type", "NS", "Total">>) >> >>

get_other_tenure_types(self) ==
    TenureGroups(self, OtherTenureTypesKeys, OtherTenureTypesColumns)

---------------------------------------------------------------------------
(* The population view of the dashboard: the metrics it shows.  The charts
   that follow read the record again and divide only under a guard *)

render_population_tab(population) ==
    Then(get_total_population(population), LAMBDA total_pop :
    Then(get_australian_citizen_status(population), LAMBDA citizen_stats :
    Then(PercentOf(Get(citizen_stats, <<"total">>), Get(total_pop, <<"total">>)),
         LAMBDA citizen_percentage :
    Then(get_indigenous_statistics(population), LAMBDA indigenous_stats :
    Then(PercentOf(Get(Get(indigenous_stats, <<"total">>), <<"total">>),
                   Get(total_pop, <<"total">>)),
         LAMBDA indigenous_percentage :
    Then(get_age_distribution(population), LAMBDA age_dist :
    Then(get_education_attendance(population), LAMBDA edu_attendance :
    Then(get_education_completion(population), LAMBDA edu_completion :
         Ok([total_pop |-> total_pop,
             citizen_percentage |-> citizen_percentage,
             indigenous_percentage |-> indigenous_percentage])))))))))

---------------------------------------------------------------------------
(* Census table G01 (selected person characteristics), short headers: cell
   <<s, g>> is the column of the s-th stem for gender g (P, M, F) *)

G01Stems ==
    << Lit(<<"Tot", "P">>) >> \o AgeDistributionStems \o IndigenousStatisticsStems
        \o EducationAttendanceStems \o EducationCompletionStems
        \o << Lit(<<"Australian", "citizen">>) >>

G01Column(cell) == GenderColumns(G01Stems[cell[1]])[cell[2]]
G01Cells == (1..Len(G01Stems)) \X (1..3)
G01Columns == {G01Column(cell) : cell \in G01Cells}

Bases == {"zero", "one"}
BaseValue(base) == IF base = "zero" THEN Zero ELSE R(1)

(* Stems 1, 13 and 28 are Tot_P, Indigenous_P_Tot and Australian_citizen *)
PopulationHotCells == {<<1, 1>>, <<1, 2>>, <<13, 1>>, <<28, 1>>}

G01Row(base, hot) ==
    Override([c \in {G01Column(cell) : cell \in DOMAIN hot} |->
                 hot[CHOOSE cell \in DOMAIN hot : G01Column(cell) = c]],
             [c \in G01Columns |-> BaseValue(base)])

(* A record of 100 people, 48 male and 52 female *)
G01ExampleRow ==
    Override(Lit(<<"Tot", "P", "P">>) :> R(100) @@ Lit(<<"Tot", "P", "M">>) :> R(48)
                 @@ Lit(<<"Tot", "P", "F">>) :> R(52),
             [c \in G01Columns |-> Zero])

G01Missing ==
    { {G01Column(<<1, 1>>)}, {G01Column(<<1, 3>>)}, {G01Column(<<28, 1>>)},
      {G01Column(<<13, 1>>)}, {G01Column(<<2, 3>>)}, {G01Column(<<17, 1>>)},
      {G01Column(<<27, 2>>)} }

PopulationFramesOf(hots) ==
    {Frame(1, G01Row(base, hot)) : base \in Bases, hot \in hots}
    \cup {Frame(1, G01ExampleRow)}
    \cup {Frame(1, Without(G01Row(base, hot), m)) :
              base \in Bases, hot \in {h \in hots : Cardinality(DOMAIN h) <= 1},
              m \in G01Missing}

PopulationFrames == PopulationFramesOf(HotAssignments(PopulationHotCells))

---------------------------------------------------------------------------
(* Census table G37 (tenure and landlord type by dwelling structure): cell
   <<t, j>> is the j-th dwelling column of the t-th tenure group *)

G37Groups ==
    OwnershipSummaryColumns \o RentalByTypeColumns
        \o <<RentalTotalsColumns, DwellingTotalsColumns>> \o OtherTenureTypesColumns

G37Column(cell) == G37Groups[cell[1]][cell[2]]
G37Cells == (1..Len(G37Groups)) \X (1..6)
G37Columns == {G37Column(cell) : cell \in G37Cells}

DwellingHotCells == {<<1, 1>>, <<1, 6>>, <<8, 6>>, <<9, 6>>}

G37Row(base, hot) ==
    Override([c \in {G37Column(cell) : cell \in DOMAIN hot} |->
                 hot[CHOOSE cell \in DOMAIN hot : G37Column(cell) = c]],
             [c \in G37Columns |-> BaseValue(base)])

G37Missing ==
    { {G37Column(<<1, 6>>)}, {G37Column(<<2, 2>>)}, {G37Column(<<5, 5>>)},
      {G37Column(<<8, 1>>)}, {G37Column(<<9, 6>>)}, {G37Column(<<11, 3>>)} }

DwellingFramesOf(hots) ==
    {Frame(1, G37Row(base, hot)) : base \in Bases, hot \in hots}
    \cup {Frame(1, Without(G37Row(base, hot), m)) :
              base \in Bases, hot \in {h \in hots : Cardinality(DOMAIN h) <= 1},
              m \in G37Missing}

DwellingFrames == DwellingFramesOf(HotAssignments(DwellingHotCells))

---------------------------------------------------------------------------
(* Calls on a Population accessor *)

CallGetTotalPopulation ==
    IsA("Population") /\ Called("get_total_population", <<>>, get_total_population(obj[1]))

CallGetAgeDistribution ==
    IsA("Population") /\ Called("get_age_distribution", <<>>, get_age_distribution(obj[1]))

CallGetIndigenousStatistics ==
    IsA("Population")
    /\ Called("get_indigenous_statistics", <<>>, get_indigenous_statistics(obj[1]))

CallGetEducationAttendance ==
    IsA("Population")
    /\ Called("get_education_attendance", <<>>, get_education_attendance(obj[1]))

CallGetEducationCompletion ==
    IsA("Population")
    /\ Called("get_education_completion", <<>>, get_education_completion(obj[1]))

CallGetAustralianCitizenStatus ==
    IsA("Population")
    /\ Called("get_australian_citizen_status", <<>>, get_australian_citizen_status(obj[1]))

CallRenderPopulationTab ==
    IsA("Population") /\ Called("render_population_tab", <<>>, render_population_tab(obj[1]))

InitPopulation ==
    /\ cls = "Population"
    /\ df \in PopulationFrames
    /\ obj = <<>>
    /\ call = NoCall
    /\ result = NoResult
    /\ seen = Untracked

NextPopulation ==
    \/ Construct
    \/ Return
    \/ CallGetTotalPopulation
    \/ CallGetAgeDistribution
    \/ CallGetIndigenousStatistics
    \/ CallGetEducationAttendance
    \/ CallGetEducationCompletion
    \/ CallGetAustralianCitizenStatus
    \/ CallRenderPopulationTab

SpecPopulation == InitPopulation /\ [][NextPopulation]_vars

---------------------------------------------------------------------------
(* Calls on a DwellingStructure accessor *)

CallGetOwnershipSummary ==
    IsA("DwellingStructure")
    /\ Called("get_ownership_summary", <<>>, get_ownership_summary(obj[1]))

CallGetRentalByType ==
    IsA("DwellingStructure") /\ Called("get_rental_by_type", <<>>, get_rental_by_type(obj[1]))

CallGetRentalTotals ==
    IsA("DwellingStructure") /\ Called("get_rental_totals", <<>>, get_rental_totals(obj[1]))

CallGetDwellingTotals ==
    IsA("DwellingStructure") /\ Called("get_dwelling_totals", <<>>, get_dwelling_totals(obj[1]))

CallGetOtherTenureTypes ==
    IsA("DwellingStructure")
    /\ Called("get_other_tenure_types", <<>>, get_other_tenure_types(obj[1]))

InitDwelling ==
    /\ cls = "DwellingStructure"
    /\ df \in DwellingFrames
    /\ obj = <<>>
    /\ call = NoCall
    /\ result = NoResult
    /\ seen = Untracked

NextDwelling ==
    \/ Construct
    \/ Return
    \/ CallGetOwnershipSummary
    \/ CallGetRentalByType
    \/ CallGetRentalTotals
    \/ CallGetDwellingTotals
    \/ CallGetOtherTenureTypes

SpecDwelling == InitDwelling /\ [][NextDwelling]_vars

---------------------------------------------------------------------------
(* The four accessors together, each over the records of its own table with
   at most one count set apart *)

RecordFrames(c) ==
    CASE c = "Population" -> PopulationFramesOf(HotUpTo(PopulationHotCells, 1))
      [] c = "Income" -> IncomeFramesOf(HotUpTo(IncomeHotCells, 1))
      [] c = "DwellingStructure" -> DwellingFramesOf(HotUpTo(DwellingHotCells, 1))
      [] c = "Ancestry" -> AncestryFramesOf(HotUpTo(AncestryHotCells, 1))

InitAccessors ==
    /\ cls \in Classes
    /\ df \in RecordFrames(cls)
    /\ obj = <<>>
    /\ call = NoCall
    /\ result = NoResult
    /\ seen = Untracked

NextAccessors ==
    \/ NextPopulation
    \/ NextIncome
    \/ NextDwelling
    \/ NextAncestry

SpecAccessors == InitAccessors /\ [][NextAccessors]_vars

---------------------------------------------------------------------------
(* The dashboard page: one run of the script for the postcode typed in *)

(* (value / total) * 100 if total > 0 else 0 *)
GuardedPercent(value, total) ==
    IF RGt(total, Zero) THEN RMul(RQuot(value, total), R(100)) ELSE Zero

(* The metrics of the dwelling tab; its charts skip the totals and divide
   only under a guard *)
render_dwelling_tab(dwelling_structure) ==
    Then(get_ownership_summary(dwelling_structure), LAMBDA ownership_data :
    Then(get_rental_by_type(dwelling_structure), LAMBDA rental_data :
    Then(get_dwelling_totals(dwelling_structure), LAMBDA dwelling_totals :
    Then(get_rental_totals(dwelling_structure), LAMBDA rental_totals :
         Ok([total_dwellings |-> Get(dwelling_totals, <<"total">>),
             owned_percentage |->
                 GuardedPercent(RAdd(Get(ownership_data[1].v, <<"total">>),
                                     Get(ownership_data[2].v, <<"total">>)),
                                Get(dwelling_totals, <<"total">>)),
             rented_percentage |->
                 GuardedPercent(Get(rental_totals, <<"total">>),
                                Get(dwelling_totals, <<"total">>))])))))

(* None when there is no response, else the five percentages of the total *)
create_parents_birthplace_chart(ancestry_data) ==
    Then(get_total_population_summary(ancestry_data), LAMBDA total_pop :
         IF RLe(Get(total_pop, <<"total">>), Zero) THEN Ok(<<>>)
         ELSE Ok([j \in 1..5 |->
                     GuardedPercent(total_pop[j].v, Get(total_pop, <<"total">>))]))

render_ancestry_tab(ancestry_data) ==
    Then(create_parents_birthplace_chart(ancestry_data), LAMBDA birthplace_chart :
    Then(get_australian_summary(ancestry_data), LAMBDA aus_summary :
    Then(get_total_population_summary(ancestry_data), LAMBDA general_summary :
    Then(plot_top_ancestries_horizontal(ancestry_data), LAMBDA figure :
         Ok([birthplace_chart |-> birthplace_chart, figure |-> figure])))))

(* The try block with the ancestry tab left out *)
ShowTabs_TwoTabs(postcode_df, postcode_income_df, ancestry_rows) ==
    Then(Population_init(postcode_df), LAMBDA population :
    Then(DwellingStructure_init(postcode_income_df), LAMBDA dwelling_structure :
    Then(render_population_tab(population), LAMBDA tab1 :
    Then(render_dwelling_tab(dwelling_structure), LAMBDA tab2 :
         Ok(<<population, dwelling_structure>>)))))

(* The body of the try block once both datasets hold a row: the accessors in
   the order they are constructed, or the exception that ends the block *)
ShowTabs(postcode_df, postcode_income_df, ancestry_rows) ==
    Then(Population_init(postcode_df), LAMBDA population :
    Then(DwellingStructure_init(postcode_income_df), LAMBDA dwelling_structure :
    Then(render_population_tab(population), LAMBDA tab1 :
    Then(render_dwelling_tab(dwelling_structure), LAMBDA tab2 :
    Then(Ancestry_init(ancestry_rows), LAMBDA ancestry :
    Then(render_ancestry_tab(ancestry), LAMBDA tab3 :
         Ok(<<population, dwelling_structure, ancestry>>)))))))

(* The accessors a run of the try block constructs *)
Accessors(postcode_df, postcode_income_df, ancestry_rows) ==
    IF IsEmpty(postcode_df) \/ IsEmpty(postcode_income_df) THEN <<>>
    ELSE IF ~Population_init(postcode_df).ok THEN <<>>
    ELSE IF ~DwellingStructure_init(postcode_income_df).ok
    THEN <<Population_init(postcode_df).val>>
    ELSE IF \/ ~render_population_tab(Population_init(postcode_df).val).ok
            \/ ~render_dwelling_tab(DwellingStructure_init(postcode_income_df).val).ok
            \/ ~Ancestry_init(ancestry_rows).ok
    THEN <<Population_init(postcode_df).val, DwellingStructure_init(postcode_income_df).val>>
    ELSE <<Population_init(postcode_df).val, DwellingStructure_init(postcode_income_df).val,
           Ancestry_init(ancestry_rows).val>>

(* A tab the script has written into: every render function starts with
   st.columns or st.subheader, so a tab it was called for holds content, all
   of it when the function returned *)
Tab(name, outcome) == [tab |-> name, complete |-> outcome.ok]

(* The tabs a run of the try block writes into, in the order of the with
   blocks: the exception of one block ends the run before the next *)
TabContent(postcode_df, postcode_income_df, ancestry_rows) ==
    IF IsEmpty(postcode_df) \/ IsEmpty(postcode_income_df) THEN <<>>
    ELSE IF ~Population_init(postcode_df).ok \/ ~DwellingStructure_init(postcode_income_df).ok
    THEN <<>>
    ELSE IF ~render_population_tab(Population_init(postcode_df).val).ok
    THEN <<Tab("Population", render_population_tab(Population_init(postcode_df).val))>>
    ELSE IF \/ ~render_dwelling_tab(DwellingStructure_init(postcode_income_df).val).ok
            \/ ~Ancestry_init(ancestry_rows).ok
    THEN <<Tab("Population", render_population_tab(Population_init(postcode_df).val)),
           Tab("Dwelling", render_dwelling_tab(DwellingStructure_init(postcode_income_df).val))>>
    ELSE <<Tab("Population", render_population_tab(Population_init(postcode_df).val)),
           Tab("Dwelling", render_dwelling_tab(DwellingStructure_init(postcode_income_df).val)),
           Tab("Ancestry", render_ancestry_tab(Ancestry_init(ancestry_rows).val))>>

NoError == [type |-> "none", arg |-> <<>>]
MsgEnter == <<"Please", SP, "enter", SP, "a", SP, "postcode", SP, "to", SP, "view", SP,
              "census", SP, "data">>
MsgNoData == <<"No", SP, "data", SP, "found", SP, "for", SP, "postcode">>
MsgProcessing == <<"Error", SP, "processing", SP, "data">>

(* What the page shows: the tabs, st.info or st.error with its text, and the
   exception an error message reports *)
Shown(kind, text, cause) == [shown |-> kind, text |-> text, cause |-> cause]

(* The page after a run: the message and the tabs written into *)
Page(message, tabs) ==
    [shown |-> message.shown, text |-> message.text, cause |-> message.cause, tabs |-> tabs]
Message(page) == Shown(page.shown, page.text, page.cause)

(* The script without the test that both datasets hold a row *)
main_Unguarded(postcode, postcode_df, postcode_income_df, ancestry_rows) ==
    IF postcode = <<>> THEN Shown("info", MsgEnter, NoError)
    ELSE IF ShowTabs(postcode_df, postcode_income_df, ancestry_rows).ok
    THEN Shown("tabs", <<>>, NoError)
    ELSE Shown("error", MsgProcessing,
               ShowTabs(postcode_df, postcode_income_df, ancestry_rows).err)

(* The script from the postcode input on; the three datasets are the rows
   the queries for that postcode select *)
main(postcode, postcode_df, postcode_income_df, ancestry_rows) ==
    IF postcode = <<>> THEN Shown("info", MsgEnter, NoError)
    ELSE IF ~IsEmpty(postcode_df) /\ ~IsEmpty(postcode_income_df)
    THEN IF ShowTabs(postcode_df, postcode_income_df, ancestry_rows).ok
         THEN Shown("tabs", <<>>, NoError)
         ELSE Shown("error", MsgProcessing,
                    ShowTabs(postcode_df, postcode_income_df, ancestry_rows).err)
    ELSE Shown("error", MsgNoData, NoError)

Postcodes == {<<>>, <<"2000">>}

(* The rows a query can select from each table: none, one (of counts 1, of
   counts 0, or short of a column), or two *)
PopulationRows ==
    {Frame(n, G01Row("one", <<>>)) : n \in 0..2}
    \cup {Frame(1, G01Row("zero", <<>>)),
          Frame(1, Without(G01Row("one", <<>>), {G01Column(<<28, 1>>)}))}

DwellingRows ==
    {Frame(n, G37Row("one", <<>>)) : n \in 0..2}
    \cup {Frame(1, G37Row("zero", <<>>)),
          Frame(1, Without(G37Row("one", <<>>), {G37Column(<<8, 6>>)}))}

AncestryRows ==
    {Frame(n, G08BaseRows["ramp"]) : n \in 0..2}
    \cup {Frame(1, G08BaseRows["zero"]),
          Frame(1, Without(G08BaseRows["ramp"], {G08Column(<<33, 6>>)}))}

(* One run of the script *)
RunPage ==
    \E postcode \in Postcodes :
        /\ cls = "Page"
        /\ call = NoCall
        /\ call' = [op |-> "main", arg |-> postcode]
        /\ result' = Ok(Page(main(postcode, df[1], df[2], df[3]),
                              IF postcode = <<>> THEN <<>>
                              ELSE TabContent(df[1], df[2], df[3])))
        /\ obj' = IF postcode = <<>> THEN <<>> ELSE Accessors(df[1], df[2], df[3])
        /\ UNCHANGED <<cls, df, seen>>

InitPage ==
    /\ cls = "Page"
    /\ df \in PopulationRows \X DwellingRows \X AncestryRows
    /\ obj = <<>>
    /\ call = NoCall
    /\ result = NoResult
    /\ seen = Untracked

NextPage ==
    \/ RunPage
    \/ Return

SpecPage == InitPage /\ [][NextPage]_vars

---------------------------------------------------------------------------
(* Properties of calculate_percentage, under SpecPercentage *)

(* C2: calculate_percentage(v, 0) returns 0 for every v, negative and zero
   included, calculate_percentage(0, t) returns 0 for every t # 0, and no
   input makes it raise *)
C2_ZeroCases ==
    call.op = "calculate_percentage" =>
        /\ result.ok
        /\ (call.arg[2] = Zero) => (result.val = Zero)
        /\ (call.arg[1] = Zero) => (result.val = Zero)

C2_Witness ==
    /\ call.op = "calculate_percentage"
    /\ call.arg = <<R(-1), Zero>>
    /\ result = Ok(Zero)

(* C3: calculate_percentage(t, t) returns 100 for every t # 0, positive or
   negative *)
C3_WholeIsHundred ==
    (call.op = "calculate_percentage" /\ call.arg[1] = call.arg[2] /\ call.arg[1] # Zero)
        => (result = Ok(R(100)))

C3_Witness ==
    /\ call.op = "calculate_percentage"
    /\ call.arg = <<R(-1), R(-1)>>
    /\ result = Ok(R(100))

---------------------------------------------------------------------------
(* Properties of the ancestry ranking, under SpecAncestry *)

Range(s) == {s[i] : i \in 1..Len(s)}

(* The column '<prefix>Tot_resp' and the display name of the i-th prefix of
   the table: the prefix less its last underscore, blanks for underscores *)
TotRespColumn(i) == ancestry_prefix_list[i] \o <<"Tot", U, "resp">>
PrefixName(i) == Replace(DropLast(ancestry_prefix_list[i]), U, SP)

(* C4: the ranking is in non-increasing order of count, holds no ancestry
   whose '<prefix>Tot_resp' is zero or absent, and holds every prefix whose
   total is present and positive, under its display name with that total *)
C4_Ranking ==
    call.op = "get_ancestry_ranking" =>
        /\ result.ok
        /\ \A i \in 1..(Len(result.val) - 1) : RLe(result.val[i + 1].v, result.val[i].v)
        /\ \A i \in 1..Len(ancestry_prefix_list) :
              IF TotRespColumn(i) \notin Columns(df) THEN ~HasKey(result.val, PrefixName(i))
              ELSE IF df.row[TotRespColumn(i)] = Zero THEN ~HasKey(result.val, PrefixName(i))
              ELSE RGt(df.row[TotRespColumn(i)], Zero)
                       => /\ HasKey(result.val, PrefixName(i))
                          /\ Get(result.val, PrefixName(i)) = df.row[TotRespColumn(i)]

C4_Witness ==
    /\ call.op = "get_ancestry_ranking"
    /\ result = Ok(<< [k |-> <<"Welsh">>, v |-> R(2)], [k |-> <<"Other">>, v |-> R(1)] >>)

---------------------------------------------------------------------------
(* Properties of the lookups, under SpecAccessors *)

StemColumns(stems) == UNION {Range(GenderColumns(stems[i])) : i \in 1..Len(stems)}
ListColumns(lists) == UNION {Range(lists[i]) : i \in 1..Len(lists)}
AgeColumns(a) == {G17Column(<<b, a>>) : b \in 1..10}
AgeIndex(s) == CHOOSE a \in 1..Len(age_bands) : age_bands[a] = s

(* The columns a summary call with recognised arguments reads *)
ReadsOf(c) ==
    CASE c.op = "get_total_population" -> StemColumns(<<Lit(<<"Tot", "P">>)>>)
      [] c.op = "get_age_distribution" -> StemColumns(AgeDistributionStems)
      [] c.op = "get_indigenous_statistics" -> StemColumns(IndigenousStatisticsStems)
      [] c.op = "get_education_attendance" -> StemColumns(EducationAttendanceStems)
      [] c.op = "get_education_completion" -> StemColumns(EducationCompletionStems)
      [] c.op = "get_australian_citizen_status" ->
            StemColumns(<<Lit(<<"Australian", "citizen">>)>>)
      [] c.op = "get_ownership_summary" -> ListColumns(OwnershipSummaryColumns)
      [] c.op = "get_rental_by_type" -> ListColumns(RentalByTypeColumns)
      [] c.op = "get_rental_totals" -> Range(RentalTotalsColumns)
      [] c.op = "get_dwelling_totals" -> Range(DwellingTotalsColumns)
      [] c.op = "get_other_tenure_types" -> ListColumns(OtherTenureTypesColumns)
      [] c.op \in {"get_income_by_age", "calculate_average_income", "get_age_band_summary"}
            /\ c.arg.s \in Range(age_bands) -> AgeColumns(AgeIndex(c.arg.s))
      [] c.op = "calculate_average_income" /\ c.arg.isNone -> G17Columns
      [] c.op \in {"get_income_distribution", "get_income_percentiles", "get_income_summary"}
            -> G17Columns
      [] c.op \in {"get_ancestry_summary", "get_ancestry_percentages"}
            /\ c.arg = <<"Chinese">> -> {G08Column(<<3, j>>) : j \in 1..6}
      [] c.op \in {"get_ancestry_summary", "get_ancestry_percentages"}
            /\ c.arg = <<"Welsh">> -> {G08Column(<<31, j>>) : j \in 1..6}
      [] c.op \in {"get_ancestry_summary", "get_ancestry_percentages"}
            /\ c.arg = <<"New", SP, "Zealand">> -> {G08Column(<<20, j>>) : j \in 1..6}
      [] c.op = "get_total_population_summary" -> {G08Column(<<33, j>>) : j \in 1..6}
      [] c.op = "get_australian_summary" -> {G08Column(<<p, j>>) : p \in {1, 2}, j \in 1..6}
      [] c.op = "get_not_stated_summary" -> {G08Column(<<32, j>>) : j \in 1..6}
      [] c.op = "get_other_ancestry_summary" -> {G08Column(<<21, j>>) : j \in 1..6}
      [] OTHER -> {}

(* C5: a summary method that needs a column absent from the record fails
   with the missing-field error (KeyError) naming such a column and returns
   nothing, every missing-field error names a column that is absent, and
   get_ancestry_ranking never fails and leaves out every ancestry whose total
   is missing, zero or negative *)
C5_MissingField ==
    /\ (call.op # "none" /\ ~(ReadsOf(call) \subseteq Columns(df)))
           => /\ Raised(result, "KeyError")
              /\ result.err.arg \in ReadsOf(call) \ Columns(df)
    /\ Raised(result, "KeyError") => (result.err.arg \notin Columns(df))
    /\ call.op = "get_ancestry_ranking" =>
           /\ result.ok
           /\ \A i \in 1..Len(ancestry_prefix_list) :
                 IF TotRespColumn(i) \notin Columns(df)
                 THEN ~HasKey(result.val, PrefixName(i))
                 ELSE RLe(df.row[TotRespColumn(i)], Zero)
                          => ~HasKey(result.val, PrefixName(i))

C5_Witness ==
    /\ call.op = "get_ownership_summary"
    /\ Lit(<<"O", "OR", "Total">>) \notin Columns(df)
    /\ Raised(result, "KeyError")
    /\ result.err.arg = Lit(<<"O", "OR", "Total">>)

(* C8: division by zero is never an error outcome of a call, whatever the
   record *)
C8_AsStated == ~Raised(result, "ZeroDivisionError")

---------------------------------------------------------------------------
(* Properties of the age-band and ancestry-name arguments *)

AgeBandOps == {"get_income_by_age", "calculate_average_income", "get_age_band_summary"}

(* C6: each Income operation that takes an age band fails with the
   invalid-parameter error (ValueError, invalid age band) for every string
   outside the nine names, the empty string included, whatever the record
   holds *)
C6_AsStated ==
    (call.op \in AgeBandOps /\ ~call.arg.isNone /\ call.arg.s \notin Range(age_bands))
        => (Raised(result, "ValueError") /\ result.err.arg = MsgAgeBand)

(* C7: get_ancestry_summary and get_ancestry_percentages fail with the
   invalid-parameter error for every name outside get_available_ancestries,
   so such a name is neither answered from columns nor reported as a missing
   field *)
C7_AsStated ==
    (call.op \in {"get_ancestry_summary", "get_ancestry_percentages"}
        /\ call.arg \notin Range(get_available_ancestries))
        => Raised(result, "ValueError")

---------------------------------------------------------------------------
(* Properties of the income statistics, under SpecIncome *)

(* The midpoints of the nine income bands, 650-799 first, the open band last *)
BandMidpoints ==
    << Rat(1449, 2), Rat(1799, 2), Rat(2249, 2), Rat(2749, 2), Rat(3249, 2),
       Rat(3749, 2), Rat(4999, 2), Rat(6499, 2), R(4250) >>

(* The cell of income band b and age band a of the record *)
Cell(b, a) == df.row[G17Column(<<b, a>>)]

(* The age bands a call of calculate_average_income covers *)
AgesOf(arg) == IF arg.isNone THEN 1..Len(age_bands) ELSE {AgeIndex(arg.s)}

(* The stated cells <<income band, age band>> of a set of age bands, in a row *)
StatedCells(ages) ==
    [i \in 1..(9 * Cardinality(ages)) |->
        <<((i - 1) % 9) + 1, Pick(ages, ((i - 1) \div 9) + 1)>>]

CountOver(cells) == Sum([i \in 1..Len(cells) |-> Cell(cells[i][1], cells[i][2])])
WeightOver(cells) ==
    Sum([i \in 1..Len(cells) |-> RMul(BandMidpoints[cells[i][1]], Cell(cells[i][1], cells[i][2]))])

CountOf(ages) == CountOver(StatedCells(ages))
WeightOf(ages) == WeightOver(StatedCells(ages))

(* C9: calculate_average_income returns the sum of midpoint * count over the
   nine income bands divided by the sum of the counts, with that sum of
   counts, the open band counted at 4250 and 'not_stated' in neither sum; it
   returns (0, 0) when the sum of the counts is zero *)
C9_Average ==
    (/\ call.op = "calculate_average_income"
     /\ call.arg.isNone \/ call.arg.s \in Range(age_bands)
     /\ G17Columns \subseteq Columns(df))
        => result = IF CountOf(AgesOf(call.arg)) = Zero THEN Ok(<<Zero, Zero>>)
                    ELSE Ok(<<RQuot(WeightOf(AgesOf(call.arg)), CountOf(AgesOf(call.arg))),
                              CountOf(AgesOf(call.arg))>>)

(* Only band 650_799 populated, with 10 people aged 25_34: (724.5, 10) *)
C9_Witness ==
    /\ call.op = "calculate_average_income"
    /\ call.arg = PyStr(<<"25", U, "34">>)
    /\ G17Columns \subseteq Columns(df)
    /\ \A c \in G17Cells : Cell(c[1], c[2]) = IF c = <<1, 3>> THEN R(10) ELSE Zero
    /\ result = Ok(<<Rat(1449, 2), R(10)>>)

(* All stated counts of the record are zero except those of income band b *)
OnlyBand(b) ==
    /\ G17Columns \subseteq Columns(df)
    /\ \A c \in (1..9) \X (1..9) : c[1] # b => Cell(c[1], c[2]) = Zero

AllKeys(x) == Ok(Zip(PercentileKeys, <<x, x, x, x>>))

(* C10 as stated: when every stated count is zero except those of one income
   band, whose counts add up to at least 1, the four percentiles are that
   band's midpoint *)
C10_AsStated ==
    call.op = "get_income_percentiles" =>
        \A b \in 1..9 :
            (OnlyBand(b) /\ RLe(R(1), CountOf(1..9)))
                => result = AllKeys(BandMidpoints[b])

(* C10: when every stated count is zero except those of one income band, and
   one of that band's counts is at least 1, the four percentiles are that
   band's midpoint, however the counts are split over the age bands and
   whatever the 'not_stated' counts are *)
C10_Percentiles ==
    call.op = "get_income_percentiles" =>
        \A b \in 1..9 :
            (OnlyBand(b) /\ \E a \in 1..9 : RLe(R(1), Cell(b, a)))
                => result = AllKeys(BandMidpoints[b])

C10_Witness ==
    /\ call.op = "get_income_percentiles"
    /\ OnlyBand(9)
    /\ Cell(9, 3) = R(1)
    /\ Cell(9, 9) = Half
    /\ result = AllKeys(R(4250))

---------------------------------------------------------------------------
(* Properties of the summaries, under SpecAccessors *)

(* The groups of table G08 that the names of get_available_ancestries stand
   for, in the order of that list *)
AvailableGroups ==
    << 3, 4, 5, 6, 7, 8, 9, 10, 11, 12, 13, 14, 15, 16, 19, 17, 18, 20, 22, 23,
       24, 25, 26, 27, 28, 29, 30, 31 >>

GroupOfName(name) ==
    AvailableGroups[CHOOSE i \in 1..Len(get_available_ancestries) :
                        get_available_ancestries[i] = name]

TotalAt(summary) == Get(summary, <<"total">>)

(* The 'total' of the i-th group of a nested summary is the cell cells[i] *)
GroupTotalsAre(groups, cells) ==
    /\ Len(groups) = Len(cells)
    /\ \A i \in 1..Len(groups) : TotalAt(groups[i].v) = df.row[cells[i]]

(* Stems first + 1 .. first + n of table G01, persons column *)
G01Totals(first, n) == [i \in 1..n |-> G01Column(<<first + i, 1>>)]

(* Groups first + 1 .. first + n of table G37, 'Total' column *)
G37Totals(first, n) == [i \in 1..n |-> G37Column(<<first + i, 6>>)]

(* C11: the 'total' field of every summary an accessor method returns is the
   value of the record's own total column of that category, whatever the
   component columns add up to *)
C11_Totals ==
    result.ok =>
        CASE call.op = "get_total_population" ->
                TotalAt(result.val) = df.row[Lit(<<"Tot", "P", "P">>)]
          [] call.op = "get_australian_citizen_status" ->
                TotalAt(result.val) = df.row[Lit(<<"Australian", "citizen", "P">>)]
          [] call.op = "get_age_distribution" -> GroupTotalsAre(result.val, G01Totals(1, 11))
          [] call.op = "get_indigenous_statistics" ->
                /\ GroupTotalsAre(result.val, G01Totals(12, 4))
                /\ TotalAt(TotalAt(result.val)) = df.row[Lit(<<"Indigenous", "P", "Tot", "P">>)]
          [] call.op = "get_education_attendance" ->
                GroupTotalsAre(result.val, G01Totals(16, 5))
          [] call.op = "get_education_completion" ->
                GroupTotalsAre(result.val, G01Totals(21, 6))
          [] call.op = "get_ownership_summary" ->
                /\ GroupTotalsAre(result.val, G37Totals(0, 2))
                /\ TotalAt(result.val[1].v) = df.row[Lit(<<"O", "OR", "Total">>)]
          [] call.op = "get_rental_by_type" -> GroupTotalsAre(result.val, G37Totals(2, 5))
          [] call.op = "get_rental_totals" ->
                TotalAt(result.val) = df.row[Lit(<<"R", "Tot", "Total">>)]
          [] call.op = "get_dwelling_totals" ->
                TotalAt(result.val) = df.row[Lit(<<"Total", "Total">>)]
          [] call.op = "get_other_tenure_types" ->
                GroupTotalsAre(result.val, G37Totals(9, 2))
          [] call.op = "get_ancestry_summary"
                /\ call.arg \in Range(get_available_ancestries) ->
                TotalAt(result.val) = df.row[G08Column(<<GroupOfName(call.arg), 6>>)]
          [] call.op = "get_total_population_summary" ->
                TotalAt(result.val) = df.row[Lit(<<"Tot", "P", "Tot", "resp">>)]
          [] call.op = "get_australian_summary" ->
                /\ TotalAt(result.val[1].v) = df.row[Lit(<<"Aust", "Tot", "resp">>)]
                /\ TotalAt(result.val[2].v) = df.row[Lit(<<"Aust", "Abor", "Tot", "resp">>)]
          [] call.op = "get_not_stated_summary" ->
                TotalAt(result.val) = df.row[Lit(<<"Ancestry", "NS", "Tot", "resp">>)]
          [] call.op = "get_other_ancestry_summary" ->
                TotalAt(result.val) = df.row[Lit(<<"Other", "Tot", "resp">>)]
          [] OTHER -> TRUE

(* A Chinese total of 2 over five parts of 1 each is reported as 2 *)
C11_Witness ==
    /\ call.op = "get_ancestry_summary"
    /\ call.arg = <<"Chinese">>
    /\ result.ok
    /\ \A j \in 1..5 : result.val[j].v = R(1)
    /\ TotalAt(result.val) = R(2)

(* C12: get_total_population returns exactly the keys total, male, female,
   with the values of the columns Tot_P_P, Tot_P_M, Tot_P_F *)
C12_TotalPopulation ==
    (call.op = "get_total_population" /\ result.ok) =>
        result.val = << [k |-> <<"total">>, v |-> df.row[Lit(<<"Tot", "P", "P">>)]],
                        [k |-> <<"male">>, v |-> df.row[Lit(<<"Tot", "P", "M">>)]],
                        [k |-> <<"female">>, v |-> df.row[Lit(<<"Tot", "P", "F">>)]] >>

(* Tot_P_P = 100, Tot_P_M = 48, Tot_P_F = 52 yields
   {total: 100, male: 48, female: 52} *)
C12_Witness ==
    /\ call.op = "get_total_population"
    /\ G01Columns \subseteq Columns(df)
    /\ df.row[Lit(<<"Tot", "P", "P">>)] = R(100)
    /\ df.row[Lit(<<"Tot", "P", "M">>)] = R(48)
    /\ df.row[Lit(<<"Tot", "P", "F">>)] = R(52)
    /\ result = Ok(<< [k |-> <<"total">>, v |-> R(100)], [k |-> <<"male">>, v |-> R(48)],
                      [k |-> <<"female">>, v |-> R(52)] >>)

---------------------------------------------------------------------------
(* Properties of the ancestry names, under SpecAncestry *)

(* C13: on a record that holds the six columns of every prefix of the table,
   get_ancestry_summary succeeds for each name of get_available_ancestries
   and returns the six columns of the table prefix the name stands for *)
C13_AsStated ==
    (/\ call.op = "get_ancestry_summary"
     /\ call.arg \in Range(get_available_ancestries)
     /\ G08Columns \subseteq Columns(df))
        => /\ result.ok
           /\ result.val = Zip(SummaryKeys,
                               [j \in 1..6 |-> df.row[G08Column(<<GroupOfName(call.arg), j>>)]])

---------------------------------------------------------------------------
(* Properties of the income distribution, under SpecIncome *)

(* The ten keys of a distribution and the mapping expected for age band a *)
DistributionKeys == [b \in 1..10 |-> IF b = 10 THEN NotStated ELSE income_bands[b].name]
ExpectedByAge(a) == [b \in 1..10 |-> [k |-> DistributionKeys[b], v |-> Cell(b, a)]]

(* C14: get_income_by_age returns the nine income bands and 'not_stated', read
   from 'P_<band>_<A>_yrs' and 'P_PI_NS_ns_<A>_yrs' for the eight younger age
   bands and from 'P_<band>_85ov' and 'P_PI_NS_ns_85_yrs_ovr' for '85ov', and
   get_income_distribution returns these mappings for the nine age bands *)
C14_IncomeByAge ==
    /\ G17Column(<<1, 3>>) = Lit(<<"P", "650", "799", "25", "34", "yrs">>)
    /\ G17Column(<<10, 3>>) = Lit(<<"P", "PI", "NS", "ns", "25", "34", "yrs">>)
    /\ G17Column(<<9, 9>>) = Lit(<<"P", "3500", "more", "85ov">>)
    /\ G17Column(<<10, 9>>) = Lit(<<"P", "PI", "NS", "ns", "85", "yrs", "ovr">>)
    /\ Len(DistributionKeys) = 10
    /\ \A b \in 1..10, c \in 1..10 : DistributionKeys[b] = DistributionKeys[c] => b = c
    /\ (call.op = "get_income_by_age" /\ ~call.arg.isNone /\ call.arg.s \in Range(age_bands))
        => IF AgeColumns(AgeIndex(call.arg.s)) \subseteq Columns(df)
           THEN result.ok /\ result.val = ExpectedByAge(AgeIndex(call.arg.s))
           ELSE /\ Raised(result, "KeyError")
                /\ result.err.arg \in AgeColumns(AgeIndex(call.arg.s)) \ Columns(df)
    /\ (call.op = "get_income_distribution" /\ G17Columns \subseteq Columns(df))
        => /\ result.ok
           /\ result.val = [a \in 1..9 |-> [k |-> age_bands[a], v |-> ExpectedByAge(a)]]

(* The oldest age band read from its irregular columns *)
C14_Witness ==
    /\ call.op = "get_income_by_age"
    /\ call.arg = PyStr(<<"85ov">>)
    /\ G17Columns \subseteq Columns(df)
    /\ df.row[Lit(<<"P", "3500", "more", "85ov">>)] = R(2)
    /\ df.row[Lit(<<"P", "PI", "NS", "ns", "85", "yrs", "ovr">>)] = R(1)
    /\ result.ok
    /\ Len(result.val) = 10
    /\ result.val[9] = [k |-> Lit(<<"3500", "more">>), v |-> R(2)]
    /\ result.val[10] = [k |-> Lit(<<"not", "stated">>), v |-> R(1)]

---------------------------------------------------------------------------
(* Repeated calls: the four accessors over a complete record and over a
   record that lacks a column, with the first call remembered *)

PurityFrames(c) ==
    CASE c = "Population" ->
            {Frame(1, G01ExampleRow),
             Frame(1, Without(G01ExampleRow, {Lit(<<"Tot", "P", "F">>)}))}
      [] c = "Income" ->
            {Frame(1, G17ExampleRow),
             Frame(1, Without(G17ExampleRow, {G17Column(<<10, 9>>)}))}
      [] c = "DwellingStructure" ->
            {Frame(1, G37Row("one", <<>>)),
             Frame(1, Without(G37Row("one", <<>>), {G37Column(<<9, 6>>)}))}
      [] c = "Ancestry" ->
            {Frame(1, G08BaseRows["ramp"]),
             Frame(1, Without(G08BaseRows["ramp"], {G08Column(<<3, 6>>)}))}

InitPurity ==
    /\ cls \in Classes
    /\ df \in PurityFrames(cls)
    /\ obj = <<>>
    /\ call = NoCall
    /\ result = NoResult
    /\ seen = Tracked

SpecPurity == InitPurity /\ [][NextAccessors]_vars

SameOutcome(r, s) ==
    /\ r.ok = s.ok
    /\ IF r.ok THEN r.val = s.val ELSE r.err = s.err

(* C15: after any sequence of calls the accessor still holds the record and
   the band tables it was constructed with, and a call repeated with the same
   arguments has the outcome it had the first time, whatever was called in
   between and whether or not that raised *)
C15_PureReads ==
    /\ obj # <<>> => obj[1] = New(cls, df).val
    /\ (seen.tracked /\ call.op = seen.call.op /\ call.op # "none"
            /\ call.arg = seen.call.arg)
        => SameOutcome(result, seen.result)

(* The ranking asked for again after a call that raised *)
C15_Witness ==
    /\ seen.tracked
    /\ seen.later = 2
    /\ seen.call.op = "get_ancestry_ranking"
    /\ call.op = "get_ancestry_ranking"
    /\ result.ok
    /\ result.val = seen.result.val
    /\ Len(result.val) > 1

---------------------------------------------------------------------------
(* Properties of the duplicate table entry, under SpecAncestry *)

OtherTotResp == Lit(<<"Other", "Tot", "resp">>)

(* The prefix table with the entries i and j exchanged *)
Exchanged(i, j) ==
    [p \in 1..Len(ancestry_prefix_list) |->
        ancestry_prefix_list[IF p = i THEN j ELSE IF p = j THEN i ELSE p]]

(* C16: the two table entries that share a display name are the same prefix
   'Other_', so the ranking is the same whichever is processed first; the
   ranking holds at most one entry per display name, and its 'Other' entry is
   the record's Other_Tot_resp, neither doubled nor merged *)
C16_OtherOnce ==
    call.op = "get_ancestry_ranking" =>
        /\ \A i \in 1..Len(ancestry_prefix_list), j \in 1..Len(ancestry_prefix_list) :
              (i # j /\ PrefixName(i) = PrefixName(j))
                  => /\ ancestry_prefix_list[i] = Pre(<<"Other">>)
                     /\ TotRespColumn(i) = TotRespColumn(j)
                     /\ Exchanged(i, j) = ancestry_prefix_list
        /\ result.ok
        /\ \A i \in 1..Len(result.val), j \in 1..Len(result.val) :
              result.val[i].k = result.val[j].k => i = j
        /\ HasKey(result.val, <<"Other">>) =>
              /\ OtherTotResp \in Columns(df)
              /\ Get(result.val, <<"Other">>) = df.row[OtherTotResp]

(* A record with two responses of other ancestry: one 'Other' entry of 2 *)
C16_Witness ==
    /\ call.op = "get_ancestry_ranking"
    /\ OtherTotResp \in Columns(df)
    /\ df.row[OtherTotResp] = R(2)
    /\ result.ok
    /\ Cardinality({i \in 1..Len(result.val) : result.val[i].k = <<"Other">>}) = 1
    /\ Get(result.val, <<"Other">>) = R(2)

---------------------------------------------------------------------------
(* Properties of the income percentiles, under SpecIncome *)

(* floor(c), and the copies a cell contributes to the multiset *)
Floor(c) == IF c.n >= 0 THEN c.n \div c.d ELSE -((c.d - c.n - 1) \div c.d)
CellCopies(b, a) == IF Floor(Cell(b, a)) > 0 THEN Floor(Cell(b, a)) ELSE 0

(* The copies of the midpoint of band b from the age bands 1..a *)
RECURSIVE CopiesIn(_, _)
CopiesIn(b, a) == IF a = 0 THEN 0 ELSE CopiesIn(b, a - 1) + CellCopies(b, a)

(* The size of the multiset of the bands 1..b *)
RECURSIVE Below(_)
Below(b) == IF b = 0 THEN 0 ELSE Below(b - 1) + CopiesIn(b, 9)

(* x[i] of the sorted multiset, i from 0 *)
OrderStat(i) == BandMidpoints[CHOOSE b \in 1..9 : Below(b - 1) <= i /\ i < Below(b)]

(* x[k] + (h - k) * (x[k+1] - x[k]) for a multiset of n values *)
InterpolatedAt(n, h, k) ==
    IF k + 1 < n
    THEN RAdd(OrderStat(k), RMul(RSub(h, R(k)), RSub(OrderStat(k + 1), OrderStat(k))))
    ELSE OrderStat(k)

PositionOf(n, q) == Rat((n - 1) * q, 100)
ExpectedPercentile(q) ==
    InterpolatedAt(Below(9), PositionOf(Below(9), q), Floor(PositionOf(Below(9), q)))

(* C17: get_income_percentiles returns the 25th, 50th, 75th and 90th
   percentile, by linear interpolation between order statistics, of the
   multiset that holds floor(count) copies of the band midpoint for each
   cell of the nine stated income bands and nine age bands *)
C17_Percentiles ==
    (call.op = "get_income_percentiles" /\ G17Columns \subseteq Columns(df) /\ Below(9) >= 1)
        => /\ result.ok
           /\ result.val = << [k |-> <<"p25">>, v |-> ExpectedPercentile(25)],
                              [k |-> <<"median">>, v |-> ExpectedPercentile(50)],
                              [k |-> <<"p75">>, v |-> ExpectedPercentile(75)],
                              [k |-> <<"p90">>, v |-> ExpectedPercentile(90)] >>

(* Two incomes of 724.5 and two of 4250: the median lies halfway between *)
C17_Witness ==
    /\ call.op = "get_income_percentiles"
    /\ G17Columns \subseteq Columns(df)
    /\ Cell(1, 3) = R(2)
    /\ Cell(9, 9) = R(2)
    /\ Below(9) = 4
    /\ result.ok
    /\ result.val = << [k |-> <<"p25">>, v |-> Rat(1449, 2)],
                       [k |-> <<"median">>, v |-> Rat(9949, 4)],
                       [k |-> <<"p75">>, v |-> R(4250)],
                       [k |-> <<"p90">>, v |-> R(4250)] >>

(* C19: when the multiset is empty, every stated count being below 1, the
   four percentiles are 0 and the call does not raise, whatever the
   'not_stated' counts are *)
C19_EmptyMultiset ==
    (call.op = "get_income_percentiles" /\ G17Columns \subseteq Columns(df) /\ Below(9) = 0)
        => /\ result.ok
           /\ result.val = << [k |-> <<"p25">>, v |-> Zero], [k |-> <<"median">>, v |-> Zero],
                              [k |-> <<"p75">>, v |-> Zero], [k |-> <<"p90">>, v |-> Zero] >>

(* Two people of unstated income and a stated count of one half *)
C19_Witness ==
    /\ call.op = "get_income_percentiles"
    /\ G17Columns \subseteq Columns(df)
    /\ Cell(10, 3) = R(2)
    /\ Cell(1, 3) = Half
    /\ Below(9) = 0
    /\ result.ok
    /\ \A i \in 1..4 : result.val[i].v = Zero

---------------------------------------------------------------------------
(* Properties of the ancestry percentages, under SpecAncestry *)

PercentageKeys ==
    << Lit(<<"both", "overseas">>), Lit(<<"father", "overseas">>),
       Lit(<<"mother", "overseas">>), Lit(<<"both", "australia">>), Lit(<<"not", "stated">>) >>

(* value / total * 100, and 0 for a total of 0 *)
ShareOf(value, total) ==
    IF total = Zero THEN Zero ELSE RMul(RQuot(value, total), R(100))

(* The j-th count of the ancestry called name *)
CountOfName(name, j) == df.row[G08Column(<<GroupOfName(name), j>>)]

(* C20: get_ancestry_percentages returns the five keys both_overseas,
   father_overseas, mother_overseas, both_australia, not_stated and no
   'total', each the percentage of the summary's total, and all five 0 when
   the total is 0 *)
C20_Percentages ==
    (call.op = "get_ancestry_percentages" /\ result.ok
        /\ call.arg \in Range(get_available_ancestries))
        => /\ result.val = [j \in 1..5 |->
                              [k |-> PercentageKeys[j],
                               v |-> ShareOf(CountOfName(call.arg, j), CountOfName(call.arg, 6))]]
           /\ ~HasKey(result.val, <<"total">>)
           /\ CountOfName(call.arg, 6) = Zero => \A j \in 1..5 : result.val[j].v = Zero

(* Two of three Chinese responses with both parents born overseas *)
C20_Witness ==
    /\ call.op = "get_ancestry_percentages"
    /\ call.arg = <<"Chinese">>
    /\ result.ok
    /\ Len(result.val) = 5
    /\ result.val[1] = [k |-> Lit(<<"both", "overseas">>), v |-> Rat(200, 3)]

---------------------------------------------------------------------------
(* Properties of the page when the postcode has no row, under SpecPage *)

EmptyRecordError == [type |-> "ValueError", arg |-> MsgEmpty]

(* The dataset is one the tab renders without an exception *)
SoundPopulation(d) ==
    Population_init(d).ok /\ render_population_tab(Population_init(d).val).ok
SoundDwelling(d) ==
    DwellingStructure_init(d).ok /\ render_dwelling_tab(DwellingStructure_init(d).val).ok
SoundAncestry(d) ==
    Ancestry_init(d).ok /\ render_ancestry_tab(Ancestry_init(d).val).ok

(* C18 as stated: whichever of the three datasets holds no row for the
   postcode, the others being sound, the page reports the error the
   constructor raises over the empty dataset *)
C18_AsStated ==
    (call.op = "main" /\ call.arg # <<>>) =>
        /\ (df[1].nrows = 0 /\ SoundDwelling(df[2]) /\ SoundAncestry(df[3]))
               => (result.val.shown = "error" /\ result.val.cause = EmptyRecordError)
        /\ (SoundPopulation(df[1]) /\ df[2].nrows = 0 /\ SoundAncestry(df[3]))
               => (result.val.shown = "error" /\ result.val.cause = EmptyRecordError)
        /\ (SoundPopulation(df[1]) /\ SoundDwelling(df[2]) /\ df[3].nrows = 0)
               => (result.val.shown = "error" /\ result.val.cause = EmptyRecordError)

(* C18: when the population or the dwelling dataset holds no row, the page
   constructs no accessor and reports that no data was found; when both are
   sound and the ancestry dataset holds no row, the Ancestry constructor
   raises over the empty dataset, no Ancestry accessor exists, and the page
   reports that error; no other case reports the empty-dataset error *)
C18_NoRow ==
    (call.op = "main" /\ call.arg # <<>>) =>
        /\ (df[1].nrows = 0 \/ df[2].nrows = 0)
               => /\ Message(result.val) = Shown("error", MsgNoData, NoError)
                  /\ obj = <<>>
        /\ (SoundPopulation(df[1]) /\ SoundDwelling(df[2]) /\ df[3].nrows = 0)
               => /\ Message(result.val) = Shown("error", MsgProcessing, EmptyRecordError)
                  /\ Len(obj) = 2
                  /\ \A i \in 1..Len(obj) : obj[i].cls # "Ancestry"
        /\ result.val.cause = EmptyRecordError => df[3].nrows = 0

C18_Witness ==
    /\ call.op = "main"
    /\ call.arg = <<"2000">>
    /\ df[1].nrows = 1
    /\ df[2].nrows = 1
    /\ df[3].nrows = 0
    /\ Message(result.val) = Shown("error", MsgProcessing, EmptyRecordError)
    /\ Len(obj) = 2

---------------------------------------------------------------------------
(* Properties of the income summaries, under SpecIncome *)

(* The sum of the nine 'not_stated' cells of the record *)
NotStatedTotal == Sum([a \in 1..9 |-> Cell(10, a)])

(* C21: get_income_summary returns the sum of the 81 stated cells as
   total_stated, the sum of the nine 'not_stated' cells as total_not_stated,
   the average of calculate_average_income() and the percentiles of
   get_income_percentiles(); get_age_band_summary(a) returns the average and
   count of calculate_average_income(a) and the distribution of
   get_income_by_age(a) *)
C21_Summaries ==
    /\ (call.op = "get_income_summary" /\ G17Columns \subseteq Columns(df))
        => /\ result.ok
           /\ result.val.total_stated = CountOf(1..9)
           /\ result.val.total_not_stated = NotStatedTotal
           /\ result.val.average_income =
                  IF CountOf(1..9) = Zero THEN Zero ELSE RQuot(WeightOf(1..9), CountOf(1..9))
           /\ result.val.average_income = calculate_average_income(obj[1], PyNone).val[1]
           /\ result.val.total_stated = calculate_average_income(obj[1], PyNone).val[2]
           /\ result.val.percentiles = get_income_percentiles(obj[1]).val
    /\ (call.op = "get_age_band_summary" /\ ~call.arg.isNone
            /\ call.arg.s \in Range(age_bands)
            /\ AgeColumns(AgeIndex(call.arg.s)) \subseteq Columns(df))
        => /\ result.ok
           /\ result.val.average_income = calculate_average_income(obj[1], call.arg).val[1]
           /\ result.val.total_stated = calculate_average_income(obj[1], call.arg).val[2]
           /\ result.val.total_stated = CountOf({AgeIndex(call.arg.s)})
           /\ result.val.distribution = get_income_by_age(obj[1], call.arg).val
           /\ result.val.distribution = ExpectedByAge(AgeIndex(call.arg.s))

(* Two stated incomes at 25-34 and one unstated at 85 and over *)
C21_Witness ==
    /\ call.op = "get_income_summary"
    /\ G17Columns \subseteq Columns(df)
    /\ Cell(1, 3) = R(2)
    /\ Cell(10, 9) = R(1)
    /\ result.ok
    /\ result.val.total_stated = R(2)
    /\ result.val.total_not_stated = R(1)
    /\ result.val.average_income = Rat(1449, 2)

---------------------------------------------------------------------------
(* Properties of the top-ancestries chart, under SpecAncestry *)

AllOther == <<"All", SP, "other">>

(* The chart of a ranking: its first TopN entries in ranking order, then one
   'All other' entry for the entries after them, each as its count divided by
   the sum of all ranking counts times 100 *)
ChartOf(rankings, bars) ==
    /\ Len(bars) = Min(TopN, Len(rankings)) + 1
    /\ \A i \in 1..Min(TopN, Len(rankings)) :
          /\ bars[i].label = rankings[i].k
          /\ bars[i].value = RMul(RQuot(rankings[i].v, Sum(Values(rankings))), R(100))
    /\ bars[Len(bars)].label = AllOther
    /\ bars[Len(bars)].value =
           RMul(RQuot(Sum(SubSeq(Values(rankings), TopN + 1, Len(rankings))),
                      Sum(Values(rankings))), R(100))
    /\ Len(rankings) <= TopN => bars[Len(bars)].value = Zero
    /\ Sum([i \in 1..Len(bars) |-> bars[i].value]) = R(100)

(* The place of a display name's first entry in ancestry_prefix_list *)
FirstPrefix(name) ==
    CHOOSE p \in 1..Len(ancestry_prefix_list) :
        /\ PrefixName(p) = name
        /\ \A q \in 1..(p - 1) : PrefixName(q) # name

(* C22: plot_top_ancestries_horizontal shows the first 10 entries of the
   ranking in ranking order followed by one 'All other' entry for the sum of
   the entries after the 10th (0 when there are 10 or fewer), each value its
   count divided by the sum of all ranking counts times 100, so that the
   values sum to 100, and the colour list drops no entry *)
C22_AsStated ==
    call.op = "plot_top_ancestries_horizontal" =>
        /\ result.ok
        /\ ChartOf(get_ancestry_ranking(obj[1]).val, result.val)

(* C23: entries of the ranking with equal counts stand in the order of
   their first occurrence in ancestry_prefix_list, larger counts stand first,
   and the ranking is determined by the counts of the record *)
C23_StableRanking ==
    call.op = "get_ancestry_ranking" =>
        /\ result.ok
        /\ \A i \in 1..Len(result.val), j \in 1..Len(result.val) :
              i < j =>
                 /\ RLe(result.val[j].v, result.val[i].v)
                 /\ result.val[i].v = result.val[j].v
                       => FirstPrefix(result.val[i].k) < FirstPrefix(result.val[j].k)
        /\ \A p \in 1..Len(ancestry_prefix_list) :
              (TotRespColumn(p) \in Columns(df) /\ RGt(df.row[TotRespColumn(p)], Zero))
                  <=> (HasKey(result.val, PrefixName(p))
                          /\ Get(result.val, PrefixName(p)) = df.row[TotRespColumn(p)])

(* Chinese and Welsh with two responses each, every other ancestry with one:
   Chinese first, Welsh second, then the table order *)
C23_Witness ==
    /\ call.op = "get_ancestry_ranking"
    /\ result.ok
    /\ Len(result.val) > 3
    /\ result.val[1] = [k |-> <<"Chinese">>, v |-> R(2)]
    /\ result.val[2] = [k |-> <<"Welsh">>, v |-> R(2)]
    /\ result.val[3] = [k |-> <<"Aust">>, v |-> R(1)]
    /\ result.val[4].v = R(1)

---------------------------------------------------------------------------
(* Bounds of the income statistics, under SpecIncome *)

(* No stated-income cell of the record is negative *)
NonNegativeCounts == \A b \in 1..9, a \in 1..9 : RLe(Zero, Cell(b, a))

(* The income bands with a cell of the age bands ages that is at least least *)
BandsWith(ages, least) == {b \in 1..9 : \E a \in ages : RLe(least, Cell(b, a))}
BandsAbove(ages) == {b \in 1..9 : \E a \in ages : RGt(Cell(b, a), Zero)}

(* x lies between the smallest and the largest midpoint of the bands *)
WithinBands(x, bands) ==
    /\ \E b \in bands : RLe(BandMidpoints[b], x)
    /\ \E b \in bands : RLe(x, BandMidpoints[b])

(* C24: on a record with non-negative counts the percentiles are ordered,
   p25 <= median <= p75 <= p90, and when the multiset is non-empty each lies
   between the smallest and the largest midpoint of the income bands that
   have a count of at least 1 *)
C24_PercentileOrder ==
    (call.op = "get_income_percentiles" /\ G17Columns \subseteq Columns(df)
        /\ NonNegativeCounts)
        => /\ result.ok
           /\ Keys(result.val) = PercentileKeys
           /\ \A i \in 1..3 : RLe(result.val[i].v, result.val[i + 1].v)
           /\ Below(9) >= 1 =>
                 \A i \in 1..4 : WithinBands(result.val[i].v, BandsWith(1..9, R(1)))

(* One income of 724.5 and two of 4250: p25 lies halfway, the rest at 4250 *)
C24_Witness ==
    /\ call.op = "get_income_percentiles"
    /\ G17Columns \subseteq Columns(df)
    /\ NonNegativeCounts
    /\ Cell(9, 3) = R(2)
    /\ Cell(1, 9) = R(1)
    /\ result.ok
    /\ result.val[1].v = Rat(9949, 4)
    /\ result.val[2].v = R(4250)
    /\ result.val[4].v = R(4250)

(* C25: on a record with non-negative stated counts and a positive total the
   average of calculate_average_income, for one age band or for all, lies
   between 724.5 and 4250, and between the smallest and the largest midpoint
   of the bands with a positive count *)
C25_AverageBounds ==
    (/\ call.op = "calculate_average_income"
     /\ call.arg.isNone \/ call.arg.s \in Range(age_bands)
     /\ G17Columns \subseteq Columns(df)
     /\ NonNegativeCounts
     /\ RGt(CountOf(AgesOf(call.arg)), Zero))
        => /\ result.ok
           /\ RLe(Rat(1449, 2), result.val[1])
           /\ RLe(result.val[1], R(4250))
           /\ WithinBands(result.val[1], BandsAbove(AgesOf(call.arg)))
           /\ Midpoint(income_bands[1]) = Rat(1449, 2)
           /\ Midpoint(income_bands[9]) = R(4250)

(* Half a person at 724.5 and two at 4250, all aged 25-34: 3544.9 on average *)
C25_Witness ==
    /\ call.op = "calculate_average_income"
    /\ call.arg = PyStr(<<"25", U, "34">>)
    /\ G17Columns \subseteq Columns(df)
    /\ NonNegativeCounts
    /\ Cell(1, 3) = Half
    /\ Cell(9, 3) = R(2)
    /\ result.ok
    /\ result.val = <<Rat(35449, 10), Rat(5, 2)>>

(* The results of calculate_average_income for each of the nine age bands *)
PerAgeBand == [a \in 1..9 |-> calculate_average_income(obj[1], PyStr(age_bands[a])).val]

(* The all-ages result <<average, count>> agrees with the per-age results *)
ConsistentWithAgeBands(all) ==
    /\ all[2] = Sum([a \in 1..9 |-> PerAgeBand[a][2]])
    /\ RMul(all[1], all[2]) = Sum([a \in 1..9 |-> RMul(PerAgeBand[a][1], PerAgeBand[a][2])])

(* C26 as stated: for every record the count of calculate_average_income()
   over all ages is the sum of the counts of the nine age bands, and its
   average times its count is the sum of average times count of the nine *)
C26_AsStated ==
    (call.op = "calculate_average_income" /\ call.arg.isNone
        /\ G17Columns \subseteq Columns(df))
        => result.ok /\ ConsistentWithAgeBands(result.val)

(* C26: on a record with non-negative stated counts the count of
   calculate_average_income() over all ages is the sum of the counts of the
   nine age bands, and its average times its count is the sum of average
   times count of the nine age bands *)
C26_Consistent ==
    (call.op = "calculate_average_income" /\ call.arg.isNone
        /\ G17Columns \subseteq Columns(df) /\ NonNegativeCounts)
        => result.ok /\ ConsistentWithAgeBands(result.val)

(* One person at 724.5 aged 25-34 and two at 4250 aged 85 and over *)
C26_Witness ==
    /\ call.op = "calculate_average_income"
    /\ call.arg.isNone
    /\ G17Columns \subseteq Columns(df)
    /\ NonNegativeCounts
    /\ Cell(1, 3) = R(1)
    /\ Cell(9, 9) = R(2)
    /\ result.ok
    /\ result.val = <<Rat(18449, 6), R(3)>>
    /\ PerAgeBand[3] = <<Rat(1449, 2), R(1)>>
    /\ PerAgeBand[9] = <<R(4250), R(2)>>

(* The number of samples in the multiset get_income_percentiles builds *)
SampleCount == Len(AllIncomes(obj[1], StatedItems(ReadAges(obj[1]).val)))

(* Every stated-income cell of the record is a whole number, none negative *)
WholeCounts == \A b \in 1..9, a \in 1..9 : Cell(b, a) = R(CellCopies(b, a))

(* The population behind the percentiles of a summary is the one behind its
   average: as many samples as total_stated, and percentiles all 0 exactly
   when total_stated is 0 *)
SamePopulation(summary) ==
    /\ R(SampleCount) = summary.total_stated
    /\ SampleCount = Below(9)
    /\ summary.total_stated = calculate_average_income(obj[1], PyNone).val[2]
    /\ summary.percentiles = get_income_percentiles(obj[1]).val
    /\ (\A i \in 1..4 : summary.percentiles[i].v = Zero) <=> summary.total_stated = Zero

(* C27 as stated: for every record the multiset of get_income_percentiles
   holds as many samples as the total_stated of calculate_average_income, and
   the percentiles of get_income_summary are all 0 exactly when total_stated
   is 0 *)
C27_AsStated ==
    (call.op = "get_income_summary" /\ G17Columns \subseteq Columns(df))
        => result.ok /\ SamePopulation(result.val)

(* C27: on a record whose stated counts are non-negative whole numbers the
   multiset of get_income_percentiles holds as many samples as the
   total_stated of calculate_average_income, and the percentiles of
   get_income_summary are all 0 exactly when total_stated is 0 *)
C27_SamePopulation ==
    (call.op = "get_income_summary" /\ G17Columns \subseteq Columns(df) /\ WholeCounts)
        => result.ok /\ SamePopulation(result.val)

(* Two people at 724.5 aged 25-34 and one at 4250 aged 85 and over *)
C27_Witness ==
    /\ call.op = "get_income_summary"
    /\ G17Columns \subseteq Columns(df)
    /\ WholeCounts
    /\ Cell(1, 3) = R(2)
    /\ Cell(9, 9) = R(1)
    /\ result.ok
    /\ SampleCount = 3
    /\ result.val.total_stated = R(3)
    /\ result.val.percentiles[2].v = Rat(1449, 2)

---------------------------------------------------------------------------
(* Properties of a run of the page, under SpecPage *)

Rendered(name) == [tab |-> name, complete |-> TRUE]
AllTabs == <<Rendered("Population"), Rendered("Dwelling"), Rendered("Ancestry")>>

(* The three ways a run for a non-empty postcode ends *)
EndsInTabs(page) ==
    /\ Message(page) = Shown("tabs", <<>>, NoError)
    /\ page.tabs = AllTabs
    /\ Len(obj) = 3
EndsInNoData(page) ==
    /\ Message(page) = Shown("error", MsgNoData, NoError)
    /\ obj = <<>>
    /\ page.tabs = <<>>
    /\ IsEmpty(df[1]) \/ IsEmpty(df[2])
EndsInError(page) ==
    /\ page.shown = "error"
    /\ page.text = MsgProcessing
    /\ page.cause # NoError
    /\ page.tabs # AllTabs
    /\ ~IsEmpty(df[1]) /\ ~IsEmpty(df[2])

(* The Ancestry accessor exists only as the third accessor, after the
   Population and the DwellingStructure accessor and their rendered tabs *)
AncestryLast(page) ==
    \A i \in 1..Len(obj) :
        obj[i].cls = "Ancestry"
            => /\ i = 3
               /\ obj[1].cls = "Population"
               /\ obj[2].cls = "DwellingStructure"
               /\ SubSeq(page.tabs, 1, 2) = SubSeq(AllTabs, 1, 2)

(* C28 as stated: a run for a non-empty postcode ends in exactly one of the
   three outcomes, the Ancestry accessor is constructed only after the other
   two and their tabs, and a run that ends in an error message has shown no
   tab content *)
C28_AsStated ==
    (call.op = "main" /\ call.arg # <<>>) =>
        /\ result.ok
        /\ EndsInTabs(result.val) \/ EndsInNoData(result.val) \/ EndsInError(result.val)
        /\ AncestryLast(result.val)
        /\ result.val.shown = "error" => result.val.tabs = <<>>

(* C28: a run for a non-empty postcode ends in exactly one of the three
   outcomes and in no uncaught exception; the Ancestry accessor is
   constructed only after the other two and their tabs; a 'No data found'
   message comes with no tab content, while an 'Error processing data'
   message follows the content of every tab written before the exception:
   both the Population and the Dwelling tab when the Ancestry constructor or
   the ancestry tab raises *)
C28_Outcomes ==
    (call.op = "main" /\ call.arg # <<>>) =>
        /\ result.ok
        /\ EndsInTabs(result.val) \/ EndsInNoData(result.val) \/ EndsInError(result.val)
        /\ ~(EndsInTabs(result.val) /\ EndsInNoData(result.val))
        /\ ~(EndsInTabs(result.val) /\ EndsInError(result.val))
        /\ ~(EndsInNoData(result.val) /\ EndsInError(result.val))
        /\ AncestryLast(result.val)
        /\ result.val.text = MsgNoData => result.val.tabs = <<>>
        /\ (SoundPopulation(df[1]) /\ SoundDwelling(df[2]) /\ ~SoundAncestry(df[3]))
               => /\ EndsInError(result.val)
                  /\ SubSeq(result.val.tabs, 1, 2) = SubSeq(AllTabs, 1, 2)
        /\ result.val.tabs # <<>> => Len(obj) >= 2

(* The ancestry record lacks a column the ancestry tab reads: both other tabs
   are shown in full, the ancestry tab in part, and then the error message *)
C28_Witness ==
    /\ call.op = "main"
    /\ call.arg = <<"2000">>
    /\ EndsInError(result.val)
    /\ Len(obj) = 3
    /\ obj[3].cls = "Ancestry"
    /\ result.val.tabs = <<Rendered("Population"), Rendered("Dwelling"),
                           [tab |-> "Ancestry", complete |-> FALSE]>>

=============================================================================
